---- MODULE Spec2Model ----
(***************************************************************************)
(* A model of the Gram Panchayat portal:                                   *)
(*   - the buffered event logger (class Logger), specification SpecLogger  *)
(*   - the application status workflow (class ApplicationsModule),         *)
(*     specification SpecApps                                              *)
(*   - the validated entry points createService (class ServicesModule)     *)
(*     and submitApplication, specification SpecForms                      *)
(*   - the validators on their own, specification SpecValidate             *)
(*   - Logger.sanitizeData on its own, specification SpecSanitize          *)
(* The hosted document store is a collaborator: its calls are modelled by  *)
(* their outcome (success or failure), chosen nondeterministically.        *)
(***************************************************************************)
EXTENDS Integers, Sequences, FiniteSets, TLC

(***************************************************************************)
(* Bounds of the model.                                                    *)
(***************************************************************************)
\* this.maxBufferSize is 100 in the constructor; the model scales it down.
maxBufferSize == 3
\* number of record calls explored
MaxEntries == 4
\* number of batch commits awaited at the same time
MaxInflight == 2
\* longest buffer explored (a failed flush doubles the buffer)
MaxBufLen == 6
\* number of calls of ApplicationsModule methods explored
MaxOps == 2
\* number of calls pending at the same time
MaxPending == 2
\* longest applicantEmail explored
MaxEmailLen == 6
\* largest number of digits in an applicantPhone explored
MaxDigits == 16
\* longest sequence (array) inside a value passed to sanitizeData
MaxArrayLen == 2

VARIABLES
    \* ---- Logger fields
    db,               \* this.db is set (a Firestore instance was passed)
    enableConsole,    \* this.enableConsole
    enableFirestore,  \* this.enableFirestore
    logBuffer,        \* this.logBuffer: sequence of log entries (by identity)
    nextLogId,        \* identity of the next entry object log() creates
    consoleSink,      \* entries handed to logToConsole, in order
    inflight,         \* flushLogs invocations suspended at await batch.commit()
    persisted,        \* entries written to the 'logs' collection
    timerActive,      \* the setInterval of startPeriodicFlush is registered
    shutdownPc,       \* position of the shutdown() call: idle, awaiting, done
    flushRejected,    \* some promise returned by flushLogs was rejected
    lastOp,           \* the handler that ran last
    lastFlush,        \* what the flushLogs call of that handler did
    \* ---- ApplicationsModule and its collaborators
    apps,             \* the 'applications' collection: document id -> document
    notifications,    \* the 'notifications' collection, in order of creation
    currentUser,      \* this.auth.currentUser.uid
    calls,            \* the pending calls of the module's async methods
    nCalls,           \* number of calls started
    lastResult,       \* how the call that finished last ended
    \* ---- ServicesModule
    services,         \* the 'services' collection, in order of creation
    \* ---- a validator call on its own
    formKind,         \* which validator: "service" or "application"
    formData,         \* the object passed to it
    formError,        \* "none" before the call, then "ok" or the message thrown
    \* ---- a sanitizeData call on its own
    sanData,          \* the value passed to sanitizeData
    sanResult,        \* the value returned
    \* ---- AuthModule and the 'users' collection
    users,            \* the 'users' collection: uid -> profile
    moduleUser,       \* AuthModule.currentUser (a uid, or "null")
    currentUserRole,  \* AuthModule.currentUserRole (a role, or "null")
    \* ---- Logger: level filter, default context, statistics
    levelFilter,      \* this.minLevel and this.minLevelIndex, once set
    defaultContext,   \* this.defaultContext of the logger in use
    entryContext,     \* the context field of the entry recorded last
    statLogs,         \* the logs getLogStatistics works on
    statResult        \* the statistics it returns

loggerVars == <<db, enableConsole, enableFirestore, logBuffer, nextLogId,
                consoleSink, inflight, persisted, timerActive, shutdownPc,
                flushRejected, lastOp, lastFlush>>

appVars == <<apps, notifications, currentUser, calls, nCalls, lastResult>>

serviceVars == <<services>>

pureVars == <<formKind, formData, formError, sanData, sanResult>>

authVars == <<users, moduleUser, currentUserRole>>

logOptVars == <<levelFilter, defaultContext, entryContext, statLogs, statResult>>

restVars == <<authVars, logOptVars>>

vars == <<loggerVars, appVars, serviceVars, pureVars, restVars>>

Range(s) == {s[i] : i \in DOMAIN s}

(***************************************************************************)
(* Logger                                                                  *)
(***************************************************************************)
\* The record methods: each builds its arguments and calls log(), whose
\* treatment of the entry does not depend on the level.
RecordMethods ==
    {"log", "info", "warn", "error", "debug", "security", "performance", "userAction"}

\* Where a storage failure can strike a flush: db.batch(), batch.set(), the
\* awaited batch.commit().
SyncOutcomes == {"ok", "batchThrows", "setThrows"}

\* The outcomes to choose from for a flush of buffer buf: an early return
\* makes no storage call.
FlushOutcomes(buf) == IF ~db \/ Len(buf) = 0 THEN {"ok"} ELSE SyncOutcomes

\* The outcomes to choose from for a record call: the storage is called only
\* when the call fills the buffer.
RecordOutcomes ==
    IF enableFirestore /\ db /\ Len(logBuffer) + 1 >= maxBufferSize
    THEN SyncOutcomes ELSE {"ok"}

\* Array.prototype.unshift: the items go in front of the target.
Unshift(target, items) == items \o target

\* The catch branch of flushLogs: this.logBuffer.unshift(...this.logBuffer).
CatchRequeue(buf) == Unshift(buf, buf)

\* const logsToFlush = [...this.logBuffer]; this.logBuffer = [];
\* (faulty variant: the buffer is copied but not replaced)
SwapOutKeeps(buf) == [logsToFlush |-> buf, logBuffer |-> buf]
SwapOut(buf) == [logsToFlush |-> buf, logBuffer |-> <<>>]

\* The try block of flushLogs encloses all three storage calls.
\* (faulty variant: the try block starts at the commit)
TryCoversCommitOnly(point) == point = "commit"
TryCovers(point) == point \in {"batch", "set", "commit"}

\* if (this.enableFirestore && this.db) in log() and in the constructor
\* (faulty variant: this.db is not tested)
ShouldBufferNoDb == enableFirestore
ShouldBuffer == enableFirestore /\ db

\* if (this.logBuffer.length >= this.maxBufferSize)
\* (faulty variant: > instead of >=)
BufferFullStrict(buf) == Len(buf) > maxBufferSize
BufferFull(buf) == Len(buf) >= maxBufferSize

\* logToConsole(logEntry)
LogToConsole(sink, e) == Append(sink, e)

\* The synchronous part of flushLogs(), up to await batch.commit(), run on
\* buffer buf with the storage behaving as oc.  buffer: this.logBuffer when
\* the call suspends or returns; batch: the entries awaiting commit (empty:
\* nothing is awaited); rejected: the returned promise is rejected.
FlushLogs(buf, oc) ==
    IF ~db \/ Len(buf) = 0
    THEN [buffer |-> buf, batch |-> <<>>, outcome |-> "noop", rejected |-> FALSE]
    ELSE IF oc = "batchThrows"
    THEN [buffer |-> IF TryCovers("batch") THEN CatchRequeue(buf) ELSE buf,
          batch |-> <<>>, outcome |-> oc, rejected |-> ~TryCovers("batch")]
    ELSE IF oc = "setThrows"
    THEN [buffer |-> IF TryCovers("set")
                     THEN CatchRequeue(SwapOut(buf).logBuffer)
                     ELSE SwapOut(buf).logBuffer,
          batch |-> <<>>, outcome |-> oc, rejected |-> ~TryCovers("set")]
    ELSE [buffer |-> SwapOut(buf).logBuffer, batch |-> SwapOut(buf).logsToFlush,
          outcome |-> "ok", rejected |-> FALSE]

\* log(level, message, data, context) on entry e: the buffer and the flush
\* it triggers.
Log(e, oc) ==
    IF ShouldBuffer
    THEN IF BufferFull(Append(logBuffer, e))
         THEN FlushLogs(Append(logBuffer, e), oc)
         ELSE [buffer |-> Append(logBuffer, e), batch |-> <<>>,
               outcome |-> "none", rejected |-> FALSE]
    ELSE [buffer |-> logBuffer, batch |-> <<>>, outcome |-> "none", rejected |-> FALSE]

\* The effect of one handler's flush result r, started by trigger by.
ApplyFlush(r, by) ==
    /\ Len(r.buffer) <= MaxBufLen
    /\ r.batch # <<>> => Cardinality(inflight) < MaxInflight
    /\ logBuffer' = r.buffer
    /\ inflight' = IF r.batch = <<>> THEN inflight
                   ELSE inflight \cup {[batch |-> r.batch, by |-> by]}
    /\ flushRejected' = (flushRejected \/ r.rejected)
    /\ lastFlush' = r.outcome

\* log(level, message, data, context) as every record method calls it: the
\* console, the buffer and the flush.
LogCall(method, oc) ==
    /\ nextLogId <= MaxEntries
    /\ consoleSink' = IF enableConsole THEN LogToConsole(consoleSink, nextLogId)
                      ELSE consoleSink
    /\ ApplyFlush(Log(nextLogId, oc), "capacity")
    /\ nextLogId' = nextLogId + 1
    /\ lastOp' = "record"
    /\ UNCHANGED <<authVars, statLogs, statResult, appVars, serviceVars, pureVars,
                   db, enableConsole, enableFirestore, persisted, timerActive,
                   shutdownPc>>

\* One call of log / info / warn / error / debug / security / performance /
\* userAction.
Record(method, oc) ==
    /\ LogCall(method, oc)
    /\ UNCHANGED <<levelFilter, defaultContext, entryContext>>

\* The setInterval callback of startPeriodicFlush.
TimerFlush(oc) ==
    /\ timerActive
    /\ ApplyFlush(FlushLogs(logBuffer, oc), "timer")
    /\ lastOp' = "timer"
    /\ UNCHANGED <<restVars, appVars, serviceVars, pureVars, db, enableConsole, enableFirestore, nextLogId, consoleSink,
                   persisted, timerActive, shutdownPc>>

\* The beforeunload listener of startPeriodicFlush.
Unload(oc) ==
    /\ ShouldBuffer
    /\ ApplyFlush(FlushLogs(logBuffer, oc), "unload")
    /\ lastOp' = "unload"
    /\ UNCHANGED <<restVars, appVars, serviceVars, pureVars, db, enableConsole, enableFirestore, nextLogId, consoleSink,
                   persisted, timerActive, shutdownPc>>

\* await batch.commit() resolves: the batch is stored.
CommitOk(f) ==
    /\ f \in inflight
    /\ inflight' = inflight \ {f}
    /\ persisted' = persisted \cup Range(f.batch)
    /\ lastOp' = "commitOk"
    /\ lastFlush' = "none"
    /\ UNCHANGED <<restVars, appVars, serviceVars, pureVars, db, enableConsole, enableFirestore, logBuffer, nextLogId,
                   consoleSink, timerActive, shutdownPc, flushRejected>>

\* await batch.commit() rejects: the catch branch runs.
CommitFail(f) ==
    /\ f \in inflight
    /\ Len(CatchRequeue(logBuffer)) <= MaxBufLen
    /\ inflight' = inflight \ {f}
    /\ logBuffer' = IF TryCovers("commit") THEN CatchRequeue(logBuffer) ELSE logBuffer
    /\ flushRejected' = (flushRejected \/ ~TryCovers("commit"))
    /\ lastOp' = "commitFail"
    /\ lastFlush' = "none"
    /\ UNCHANGED <<restVars, appVars, serviceVars, pureVars, db, enableConsole, enableFirestore, nextLogId, consoleSink,
                   persisted, timerActive, shutdownPc>>

\* this.flushIntervalId: no statement of the class assigns it.
flushIntervalId == "undefined"

\* shutdown(), up to await this.flushLogs(): this.info('Logger shutting down')
\* and the synchronous part of the flush.
ShutdownStart(oc, oc2) ==
    /\ shutdownPc = "idle"
    /\ nextLogId <= MaxEntries
    /\ consoleSink' = IF enableConsole THEN LogToConsole(consoleSink, nextLogId)
                      ELSE consoleSink
    /\ LET r1 == Log(nextLogId, oc)
           r2 == FlushLogs(r1.buffer, oc2)
       IN  /\ Len(r2.buffer) <= MaxBufLen
           /\ Cardinality(inflight) + (IF r1.batch = <<>> THEN 0 ELSE 1)
                 + (IF r2.batch = <<>> THEN 0 ELSE 1) <= MaxInflight
           /\ logBuffer' = r2.buffer
           /\ inflight' = inflight
                 \cup (IF r1.batch = <<>> THEN {} ELSE {[batch |-> r1.batch, by |-> "capacity"]})
                 \cup (IF r2.batch = <<>> THEN {} ELSE {[batch |-> r2.batch, by |-> "shutdown"]})
           /\ flushRejected' = (flushRejected \/ r1.rejected \/ r2.rejected)
           /\ lastFlush' = r2.outcome
    /\ nextLogId' = nextLogId + 1
    /\ shutdownPc' = "awaiting"
    /\ lastOp' = "shutdownStart"
    /\ UNCHANGED <<restVars, appVars, serviceVars, pureVars, db, enableConsole, enableFirestore, persisted, timerActive>>

\* shutdown(), after await this.flushLogs():
\* if (this.flushIntervalId) clearInterval(this.flushIntervalId).
ShutdownFinish ==
    /\ shutdownPc = "awaiting"
    /\ \A f \in inflight : f.by # "shutdown"
    /\ shutdownPc' = "done"
    /\ timerActive' = IF flushIntervalId # "undefined" THEN FALSE ELSE timerActive
    /\ lastOp' = "shutdownDone"
    /\ lastFlush' = "none"
    /\ UNCHANGED <<restVars, appVars, serviceVars, pureVars, db, enableConsole, enableFirestore, logBuffer, nextLogId,
                   consoleSink, inflight, persisted, flushRejected>>

\* new Logger(firestore, enableConsole, enableFirestore)
InitLogger ==
    /\ db \in BOOLEAN
    /\ enableConsole \in BOOLEAN
    /\ enableFirestore \in BOOLEAN
    /\ logBuffer = <<>>
    /\ nextLogId = 1
    /\ consoleSink = <<>>
    /\ inflight = {}
    /\ persisted = {}
    /\ timerActive = ShouldBuffer
    /\ shutdownPc = "idle"
    /\ flushRejected = FALSE
    /\ lastOp = "init"
    /\ lastFlush = "none"

NextLogger ==
    \/ \E m \in RecordMethods, oc \in RecordOutcomes : Record(m, oc)
    \/ \E oc \in FlushOutcomes(logBuffer) : TimerFlush(oc)
    \/ \E oc \in FlushOutcomes(logBuffer) : Unload(oc)
    \/ \E f \in inflight : CommitOk(f)
    \/ \E f \in inflight : CommitFail(f)
    \/ \E oc \in RecordOutcomes, oc2 \in SyncOutcomes : ShutdownStart(oc, oc2)
    \/ ShutdownFinish

\* The scheduling of the logger: the interval timer keeps firing (setInterval),
\* and a commit that is tried again and again succeeds in the end.
FairLogger ==
    /\ WF_vars(TimerFlush("ok"))
    /\ SF_vars(\E f \in inflight : CommitOk(f))

(***************************************************************************)
(* The validators of ServicesModule and ApplicationsModule                 *)
(* An input object is a function from the field names it has to their      *)
(* values.  Values are strings, except applicantEmail and applicantPhone,   *)
(* which the validator inspects character by character: these are          *)
(* sequences of one-character strings.                                     *)
(***************************************************************************)
CharFields == {"applicantEmail", "applicantPhone"}

\* !data[field]: the field is absent (undefined) or holds the empty string.
\* (faulty variant: only an absent field counts)
FalsyAbsentOnly(data, field) == field \notin DOMAIN data
Falsy(data, field) ==
    \/ field \notin DOMAIN data
    \/ data[field] = IF field \in CharFields THEN <<>> ELSE ""

\* Array.prototype.join(', ')
RECURSIVE Join(_)
Join(names) ==
    IF names = <<>> THEN ""
    ELSE IF Len(names) = 1 THEN names[1]
    ELSE names[1] \o ", " \o Join(Tail(names))

\* required.filter(field => !data[field])
Missing(required, data) ==
    LET absent(field) == Falsy(data, field) IN SelectSeq(required, absent)

\* const validCategories = [...] in validateServiceData
validCategories == {"certificate", "license", "welfare", "other"}

\* ServicesModule.validateServiceData: "ok" when it returns, else the
\* message of the Error it throws.
ValidateServiceData(serviceData) ==
    LET missing == Missing(<<"name", "description", "category">>, serviceData)
    IN  IF Len(missing) > 0
        THEN "Missing required fields: " \o Join(missing)
        ELSE IF serviceData.category \notin validCategories
        THEN "Invalid service category"
        ELSE "ok"

\* The character classes of the two regular expressions: \s and \d.
IsSpace(ch) == ch \in {" ", "\t"}
IsDigit(ch) == ch \in {"0", "1", "2", "3", "4", "5", "6", "7", "8", "9"}

\* [^\s@]
NotSpaceNorAt(ch) == ~IsSpace(ch) /\ ch # "@"

\* The automaton of /^[^\s@]+@[^\s@]+\.[^\s@]+$/ : the positions of the
\* pattern that can follow position q once ch is read.
EmailStep(q, ch) ==
    CASE q = "start"  -> IF NotSpaceNorAt(ch) THEN {"local"} ELSE {}
      [] q = "local"  -> (IF NotSpaceNorAt(ch) THEN {"local"} ELSE {})
                            \cup (IF ch = "@" THEN {"at"} ELSE {})
      [] q = "at"     -> IF NotSpaceNorAt(ch) THEN {"domain"} ELSE {}
      [] q = "domain" -> (IF NotSpaceNorAt(ch) THEN {"domain"} ELSE {})
                            \cup (IF ch = "." THEN {"dot"} ELSE {})
      [] q = "dot"    -> IF NotSpaceNorAt(ch) THEN {"tld"} ELSE {}
      [] q = "tld"    -> IF NotSpaceNorAt(ch) THEN {"tld"} ELSE {}

RECURSIVE EmailRun(_, _)
EmailRun(qs, text) ==
    IF text = <<>> THEN qs
    ELSE EmailRun(UNION {EmailStep(q, text[1]) : q \in qs}, Tail(text))

\* emailRegex.test(text)
EmailRegexTest(text) == "tld" \in EmailRun({"start"}, text)

\* text.replace(/\D/g, '')
\* (faulty variant: nothing is stripped)
StripNonDigitsKeepsAll(text) == text
StripNonDigits(text) == SelectSeq(text, IsDigit)

\* /^\d{10,15}$/.test(text)
PhoneRegexTest(text) ==
    /\ \A i \in DOMAIN text : IsDigit(text[i])
    /\ Len(text) >= 10 /\ Len(text) <= 15

\* ApplicationsModule.validateApplicationData: "ok" when it returns, else
\* the message of the Error it throws.
ValidateApplicationData(applicationData) ==
    LET missing == Missing(<<"serviceId", "applicantName", "applicantEmail",
                             "applicantPhone">>, applicationData)
    IN  IF Len(missing) > 0
        THEN "Missing required fields: " \o Join(missing)
        ELSE IF ~EmailRegexTest(applicationData.applicantEmail)
        THEN "Invalid email format"
        ELSE IF ~PhoneRegexTest(StripNonDigits(applicationData.applicantPhone))
        THEN "Invalid phone number format"
        ELSE "ok"

(***************************************************************************)
(* ApplicationsModule                                                      *)
(* Each async method is a process that advances from one await to the      *)
(* next; the document store answers each get / add / update / commit       *)
(* either with success or with a failure.  The module's logger calls go to *)
(* the Logger modelled above and do not touch the state modelled here.     *)
(***************************************************************************)
Users == {"u1", "u2"}
AppIds == {1, 2}

\* const validStatuses = [...] in updateApplicationStatus
\* (faulty variant: any string passes)
validStatusesAny ==
    {"pending", "under_review", "approved", "rejected", "completed", "cancelled",
     "bogus"}
validStatuses == {"pending", "under_review", "approved", "rejected", "completed"}

\* Inputs explored.
StatusInputs == {"under_review", "approved", "bogus"}
CommentInputs == {"", "note"}
BulkInputs == {<<1>>, <<1, 2>>}
BulkStatusInputs == {"rejected", "bogus"}
BulkCommentInputs == {""}

\* Form inputs.
GoodEmail == <<"a", "@", "b", ".", "c">>
GoodPhone == <<"9", "8", "7", "6", "5", "4", "3", "2", "1", "0">>
ApplicationData(serviceId, name, email, phone) ==
    [serviceId |-> serviceId, applicantName |-> name,
     applicantEmail |-> email, applicantPhone |-> phone]
SubmitInputs ==
    {ApplicationData("s1", "Asha", GoodEmail, GoodPhone),
     [serviceId |-> "s1"]}
FormInputs ==
    SubmitInputs \cup
    {ApplicationData("s2", "Asha", GoodEmail, GoodPhone),
     ApplicationData("s1", "Asha", <<"a", "@", "b">>, GoodPhone),
     ApplicationData("s1", "Asha", GoodEmail, <<"1", "2", "3">>)}
ServiceInputs ==
    {[name |-> "Birth Certificate", description |-> "Issue birth certificate",
      category |-> "certificate"],
     [name |-> "Trade License", description |-> "", category |-> "license"],
     [description |-> "Issue income certificate"],
     [name |-> "House Tax", description |-> "Pay house tax", category |-> "tax"],
     [name |-> "Pension", description |-> "Old age pension", category |-> "welfare"]}

NoDoc == [exists |-> FALSE]
NoResult == [op |-> "none", id |-> 0, outcome |-> "none", eligible |-> FALSE]

Last(s) == s[Len(s)]

\* comments || `Status changed to ${newStatus}` (prefix: the template's text)
OrDefault(comments, prefix, newStatus) ==
    IF comments = "" THEN prefix \o newStatus ELSE comments

\* statusHistory.push({status, timestamp, updatedBy, comments})
\* (faulty variant: the history read is dropped)
PushReplaces(history, entry) == <<entry>>
Push(history, entry) == Append(history, entry)

\* The history entry of updateApplicationStatus.
StatusEntry(newStatus, uid, comments) ==
    [status |-> newStatus, updatedBy |-> uid,
     comments |-> OrDefault(comments, "Status changed to ", newStatus)]

\* updateData of updateApplicationStatus, built from the document read.
\* (faulty variant: the status field keeps the value read)
UpdateDataKeepsStatus(currentData, newStatus, uid, comments) ==
    [status |-> currentData.status,
     lastUpdatedBy |-> uid,
     statusHistory |-> Push(currentData.statusHistory,
                            StatusEntry(newStatus, uid, comments)),
     setCompletedAt |-> newStatus \in {"approved", "completed"}]
UpdateData(currentData, newStatus, uid, comments) ==
    [status |-> newStatus,
     lastUpdatedBy |-> uid,
     statusHistory |-> Push(currentData.statusHistory,
                            StatusEntry(newStatus, uid, comments)),
     setCompletedAt |-> newStatus \in {"approved", "completed"}]

\* The argument of batch.update in bulkUpdateStatus.
BulkUpdateData(currentData, newStatus, uid, comments) ==
    [status |-> newStatus,
     lastUpdatedBy |-> uid,
     statusHistory |-> Push(currentData.statusHistory,
                            [status |-> newStatus, updatedBy |-> uid,
                             comments |-> OrDefault(comments, "Bulk update to ", newStatus)]),
     setCompletedAt |-> FALSE]

\* DocumentReference.update: the fields of data replace those of the document.
Merge(doc, data) ==
    [doc EXCEPT !.status = data.status,
                !.lastUpdatedBy = data.lastUpdatedBy,
                !.statusHistory = data.statusHistory,
                !.completedAt = IF data.setCompletedAt THEN TRUE ELSE @]

\* The document submitApplication adds.
NewApplication(uid) ==
    [exists |-> TRUE, userId |-> uid, status |-> "pending",
     statusHistory |-> <<[status |-> "pending", updatedBy |-> uid,
                          comments |-> "Application submitted"]>>,
     completedAt |-> FALSE, lastUpdatedBy |-> "none"]

\* The notification updateApplicationStatus creates.
\* (faulty variant: addressed to the user who made the change)
NotificationToCaller(userId, applicationId, newStatus) ==
    [userId |-> currentUser, type |-> "status_update",
     applicationId |-> applicationId, newStatus |-> newStatus, isRead |-> FALSE]
Notification(userId, applicationId, newStatus) ==
    [userId |-> userId, type |-> "status_update", applicationId |-> applicationId,
     newStatus |-> newStatus, isRead |-> FALSE]

\* The pending calls are kept in the order they were made; p is a position
\* in that sequence.
Pending == DOMAIN calls

Remove(seq, p) == [i \in 1..(Len(seq) - 1) |-> IF i < p THEN seq[i] ELSE seq[i + 1]]

\* Room for a new call, which will sit at position p.
FreeSlot(p) == p = Len(calls) + 1 /\ Len(calls) < MaxPending

\* The call at position p suspends at an await in state rec (a call that
\* was just made takes its position).
Put(p, rec) == IF p > Len(calls) THEN Append(calls, rec) ELSE [calls EXCEPT ![p] = rec]

\* A call returns or throws: its slot is free again.
Finish(p, op, id, outcome, eligible) ==
    /\ calls' = IF p > Len(calls) THEN calls ELSE Remove(calls, p)
    /\ lastResult' = [op |-> op, id |-> id, outcome |-> outcome, eligible |-> eligible]

\* A sign-in as another user, between calls.
SwitchUser(u) ==
    /\ u # currentUser
    /\ calls = <<>>
    /\ currentUser' = u
    /\ UNCHANGED <<restVars, loggerVars, serviceVars, pureVars, apps, notifications, calls, nCalls, lastResult>>

\* The id of the i-th document of the 'services' collection.
ServiceId(i) == "s" \o ToString(i)

\* serviceDoc.exists for collection('services').doc(serviceId)
ServiceExists(serviceId) ==
    \E i \in DOMAIN services : ServiceId(i) = serviceId /\ services[i].exists

\* submitApplication(applicationData), up to the await of the service get.
\* (faulty variant: the service is fetched without validating first)
SubmitCallUnvalidated(p, applicationData) ==
    /\ FreeSlot(p) /\ nCalls < MaxOps
    /\ nCalls' = nCalls + 1
    /\ calls' = Put(p, [op |-> "submit", pc |-> "service",
                        serviceId |-> applicationData.serviceId])
    /\ UNCHANGED lastResult
    /\ UNCHANGED <<restVars, loggerVars, serviceVars, pureVars, apps, notifications, currentUser>>
SubmitCall(p, applicationData) ==
    /\ FreeSlot(p) /\ nCalls < MaxOps
    /\ nCalls' = nCalls + 1
    /\ IF ValidateApplicationData(applicationData) = "ok"
       THEN /\ calls' = Put(p, [op |-> "submit", pc |-> "service",
                                serviceId |-> applicationData.serviceId])
            /\ UNCHANGED lastResult
       ELSE Finish(p, "submit", 0, ValidateApplicationData(applicationData), FALSE)
    /\ UNCHANGED <<restVars, loggerVars, serviceVars, pureVars, apps, notifications, currentUser>>

\* submitApplication: the service get resolves or fails; the application
\* is added.
SubmitService(p, ok) ==
    /\ p \in Pending /\ calls[p].op = "submit" /\ calls[p].pc = "service"
    /\ IF ~ok THEN Finish(p, "submit", 0, "storage error", FALSE)
       ELSE IF ~ServiceExists(calls[p].serviceId)
       THEN Finish(p, "submit", 0, "Service not found", FALSE)
       ELSE /\ calls' = [calls EXCEPT ![p].pc = "add"]
            /\ UNCHANGED lastResult
    /\ UNCHANGED <<restVars, loggerVars, serviceVars, pureVars, apps, notifications, currentUser, nCalls>>

\* submitApplication: collection('applications').add(...) resolves.
SubmitAdd(p, ok) ==
    /\ p \in Pending /\ calls[p].op = "submit" /\ calls[p].pc = "add"
    /\ \E id \in AppIds :
          /\ ~apps[id].exists
          /\ \A j \in AppIds : j < id => apps[j].exists
          /\ IF ok
             THEN /\ apps' = [apps EXCEPT ![id] = NewApplication(currentUser)]
                  /\ Finish(p, "submit", id, "ok", FALSE)
             ELSE /\ UNCHANGED apps
                  /\ Finish(p, "submit", 0, "storage error", FALSE)
    /\ UNCHANGED <<restVars, loggerVars, serviceVars, pureVars, notifications, currentUser, nCalls>>

\* The start of updateApplicationStatus(id, newStatus, comments) in slot p:
\* the check against validStatuses, then the await of the get.  via: the
\* method that was called (update, or cancel when cancelApplication calls it).
BeginUpdate(p, via, id, newStatus, comments) ==
    IF newStatus \in validStatuses
    THEN /\ calls' = Put(p,
                [op |-> "update", pc |-> "read", via |-> via, id |-> id,
                 newStatus |-> newStatus, comments |-> comments,
                 caller |-> currentUser])
         /\ UNCHANGED lastResult
    ELSE Finish(p, via, id, "Invalid status", via = "cancel")

UpdateCall(p, id, newStatus, comments) ==
    /\ FreeSlot(p) /\ nCalls < MaxOps
    /\ nCalls' = nCalls + 1
    /\ BeginUpdate(p, "update", id, newStatus, comments)
    /\ UNCHANGED <<restVars, loggerVars, serviceVars, pureVars, apps, notifications, currentUser>>

\* updateApplicationStatus: applicationRef.get() resolves; the history and
\* updateData are built and applicationRef.update(updateData) is awaited.
UpdateRead(p, ok) ==
    /\ p \in Pending /\ calls[p].op = "update" /\ calls[p].pc = "read"
    /\ LET c == calls[p] IN
       IF ~ok THEN Finish(p, c.via, c.id, "storage error", c.via = "cancel")
       ELSE IF ~apps[c.id].exists
       THEN Finish(p, c.via, c.id, "Application not found", c.via = "cancel")
       ELSE /\ calls' = [calls EXCEPT ![p] =
                   [op |-> "update", pc |-> "write", via |-> c.via, id |-> c.id,
                    newStatus |-> c.newStatus, comments |-> c.comments,
                    caller |-> c.caller,
                    currentData |-> apps[c.id],
                    updateData |-> UpdateData(apps[c.id], c.newStatus,
                                              currentUser, c.comments)]]
            /\ UNCHANGED lastResult
    /\ UNCHANGED <<restVars, loggerVars, serviceVars, pureVars, apps, notifications, currentUser, nCalls>>

\* updateApplicationStatus: applicationRef.update(updateData) resolves.
UpdateWrite(p, ok) ==
    /\ p \in Pending /\ calls[p].op = "update" /\ calls[p].pc = "write"
    /\ LET c == calls[p] IN
       IF ok
       THEN /\ apps' = [apps EXCEPT ![c.id] = Merge(@, c.updateData)]
            /\ calls' = [calls EXCEPT ![p].pc = "notify"]
            /\ UNCHANGED lastResult
       ELSE /\ UNCHANGED apps
            /\ Finish(p, c.via, c.id, "storage error", c.via = "cancel")
    /\ UNCHANGED <<restVars, loggerVars, serviceVars, pureVars, notifications, currentUser, nCalls>>

\* What createNotification hands back to updateApplicationStatus: its catch
\* block logs the failure of the add and does not rethrow.
\* (faulty variant: the failure is rethrown)
CreateNotificationRethrows(ok) == IF ok THEN "ok" ELSE "storage error"
CreateNotification(ok) == "ok"

\* updateApplicationStatus: createNotification's add resolves or fails (the
\* failure is logged and swallowed); the call returns.
UpdateNotify(p, ok) ==
    /\ p \in Pending /\ calls[p].op = "update" /\ calls[p].pc = "notify"
    /\ LET c == calls[p] IN
       /\ notifications' =
             IF ok THEN Append(notifications,
                               Notification(c.currentData.userId, c.id, c.newStatus))
             ELSE notifications
       /\ Finish(p, c.via, c.id, CreateNotification(ok), c.via = "cancel")
    /\ UNCHANGED <<restVars, loggerVars, serviceVars, pureVars, apps, currentUser, nCalls>>

\* cancelApplication(id, reason), up to the await of the get.
CancelCall(p, id, reason) ==
    /\ FreeSlot(p) /\ nCalls < MaxOps
    /\ nCalls' = nCalls + 1
    /\ calls' = Put(p, [op |-> "cancel", pc |-> "read", id |-> id, reason |-> reason])
    /\ UNCHANGED <<restVars, loggerVars, serviceVars, pureVars, apps, notifications, currentUser, lastResult>>

\* cancelApplication's check "if (applicationData.status !== 'pending') throw".
\* (faulty variant: the check is dropped)
CancellableAlways(status) == TRUE
Cancellable(status) == status = "pending"

\* cancelApplication: the get resolves; the ownership and status checks run
\* and updateApplicationStatus(id, 'cancelled', reason || 'Cancelled by user')
\* is called.
CancelRead(p, ok) ==
    /\ p \in Pending /\ calls[p].op = "cancel" /\ calls[p].pc = "read"
    /\ LET c == calls[p] IN
       IF ~ok THEN Finish(p, "cancel", c.id, "storage error", FALSE)
       ELSE IF ~apps[c.id].exists
       THEN Finish(p, "cancel", c.id, "Application not found", FALSE)
       ELSE IF apps[c.id].userId # currentUser
       THEN Finish(p, "cancel", c.id, "Unauthorized to cancel this application", FALSE)
       ELSE IF ~Cancellable(apps[c.id].status)
       THEN Finish(p, "cancel", c.id, "Application cannot be cancelled at this stage", FALSE)
       ELSE BeginUpdate(p, "cancel", c.id, "cancelled",
                        IF c.reason = "" THEN "Cancelled by user" ELSE c.reason)
    /\ UNCHANGED <<restVars, loggerVars, serviceVars, pureVars, apps, notifications, currentUser, nCalls>>

\* bulkUpdateStatus(ids, newStatus, comments), up to the await of the first
\* get (or of the commit when ids is empty).
BulkCall(p, ids, newStatus, comments) ==
    /\ FreeSlot(p) /\ nCalls < MaxOps
    /\ nCalls' = nCalls + 1
    /\ calls' = Put(p,
            [op |-> "bulk", pc |-> "read", ids |-> ids, i |-> 1,
             newStatus |-> newStatus, comments |-> comments,
             batch |-> <<>>, success |-> 0, failed |-> 0])
    /\ UNCHANGED <<restVars, loggerVars, serviceVars, pureVars, apps, notifications, currentUser, lastResult>>

\* bulkUpdateStatus: the get of ids[i] resolves or fails; one loop iteration.
BulkRead(p, ok) ==
    /\ p \in Pending /\ calls[p].op = "bulk" /\ calls[p].pc = "read"
    /\ LET c == calls[p]
           id == c.ids[c.i]
           pc2 == IF c.i = Len(c.ids) THEN "commit" ELSE "read"
       IN  calls' = [calls EXCEPT ![p] =
              IF ok /\ apps[id].exists
              THEN [c EXCEPT !.batch = Append(@, [id |-> id,
                                 data |-> BulkUpdateData(apps[id], c.newStatus,
                                                         currentUser, c.comments)]),
                             !.success = @ + 1, !.i = @ + 1, !.pc = pc2]
              ELSE [c EXCEPT !.failed = @ + 1, !.i = @ + 1, !.pc = pc2]]
    /\ UNCHANGED <<restVars, loggerVars, serviceVars, pureVars, apps, notifications, currentUser, nCalls, lastResult>>

\* WriteBatch.commit: the updates are applied in order, all or none.
RECURSIVE ApplyBatch(_, _)
ApplyBatch(docs, batch) ==
    IF batch = <<>> THEN docs
    ELSE ApplyBatch([docs EXCEPT ![batch[1].id] = Merge(@, batch[1].data)],
                    Tail(batch))

\* bulkUpdateStatus: await batch.commit() resolves or rejects.
BulkCommit(p, ok) ==
    /\ p \in Pending /\ calls[p].op = "bulk" /\ calls[p].pc = "commit"
    /\ LET c == calls[p] IN
       IF ok
       THEN /\ apps' = ApplyBatch(apps, c.batch)
            /\ Finish(p, "bulk", 0, <<c.success, c.failed>>, FALSE)
       ELSE /\ UNCHANGED apps
            /\ Finish(p, "bulk", 0, "storage error", FALSE)
    /\ UNCHANGED <<restVars, loggerVars, serviceVars, pureVars, notifications, currentUser, nCalls>>

(***************************************************************************)
(* ServicesModule                                                          *)
(***************************************************************************)
\* The document createService adds.
ServiceDoc(serviceData, uid) ==
    [exists |-> TRUE,
     name |-> serviceData.name, description |-> serviceData.description,
     category |-> serviceData.category, isActive |-> TRUE, createdBy |-> uid]

\* createService(serviceData), up to the await of the add.
ServiceCall(p, serviceData) ==
    /\ FreeSlot(p) /\ nCalls < MaxOps
    /\ nCalls' = nCalls + 1
    /\ IF ValidateServiceData(serviceData) = "ok"
       THEN /\ calls' = Put(p, [op |-> "createService", pc |-> "add",
                                data |-> serviceData])
            /\ UNCHANGED lastResult
       ELSE Finish(p, "createService", 0, ValidateServiceData(serviceData), FALSE)
    /\ UNCHANGED <<restVars, loggerVars, serviceVars, pureVars, apps, notifications, currentUser>>

\* createService: collection('services').add(...) resolves or fails.
ServiceAdd(p, ok) ==
    /\ p \in Pending /\ calls[p].op = "createService" /\ calls[p].pc = "add"
    /\ IF ok
       THEN /\ services' = Append(services, ServiceDoc(calls[p].data, currentUser))
            /\ Finish(p, "createService", 0, "ok", FALSE)
       ELSE /\ UNCHANGED services
            /\ Finish(p, "createService", 0, "storage error", FALSE)
    /\ UNCHANGED <<restVars, loggerVars, pureVars, apps, notifications, currentUser, nCalls>>

\* doc(serviceId).update(fields): the document with the fields written over it.
ApplyUpdates(doc, fields) ==
    [k \in DOMAIN doc \cup DOMAIN fields |->
        IF k \in DOMAIN fields THEN fields[k] ELSE doc[k]]

\* The ids and the update data the callers pass.
ServiceIdInputs == {"s1", "s2", "s9"}

UpdateInputs == {[name |-> "Renamed"], [isActive |-> TRUE], [isActive |-> FALSE]}

\* The index of the document with this id.
ServiceIndex(serviceId) == CHOOSE i \in DOMAIN services : ServiceId(i) = serviceId

\* updateService(serviceId, updateData), up to the await of the update.
UpdateServiceCall(p, serviceId, updateData) ==
    /\ FreeSlot(p) /\ nCalls < MaxOps
    /\ nCalls' = nCalls + 1
    /\ calls' = Put(p, [op |-> "updateService", pc |-> "update",
                        serviceId |-> serviceId,
                        updates |-> ApplyUpdates(updateData,
                                                 [updatedBy |-> currentUser])])
    /\ UNCHANGED lastResult
    /\ UNCHANGED <<restVars, loggerVars, serviceVars, pureVars, apps, notifications, currentUser>>

\* updateService: doc(serviceId).update(updates) resolves, or rejects (also
\* when there is no such document).
UpdateServiceWrite(p, ok) ==
    /\ p \in Pending /\ calls[p].op = "updateService" /\ calls[p].pc = "update"
    /\ IF ok /\ ServiceExists(calls[p].serviceId)
       THEN /\ services' = [services EXCEPT ![ServiceIndex(calls[p].serviceId)] =
                                ApplyUpdates(@, calls[p].updates)]
            /\ Finish(p, "updateService", 0, "ok", FALSE)
       ELSE /\ UNCHANGED services
            /\ Finish(p, "updateService", 0, "storage error", FALSE)
    /\ UNCHANGED <<restVars, loggerVars, pureVars, apps, notifications, currentUser, nCalls>>

\* The document deleteService leaves behind.
\* (faulty variant: the document is removed)
HardDelete(doc, uid) == NoDoc
SoftDelete(doc, uid) == ApplyUpdates(doc, [isActive |-> FALSE, deletedBy |-> uid])

\* deleteService(serviceId), up to the await of the update.
DeleteServiceCall(p, serviceId) ==
    /\ FreeSlot(p) /\ nCalls < MaxOps
    /\ nCalls' = nCalls + 1
    /\ calls' = Put(p, [op |-> "deleteService", pc |-> "update",
                        serviceId |-> serviceId, uid |-> currentUser])
    /\ UNCHANGED lastResult
    /\ UNCHANGED <<restVars, loggerVars, serviceVars, pureVars, apps, notifications, currentUser>>

\* deleteService: the update resolves, or rejects (also when there is no such
\* document).
DeleteServiceWrite(p, ok) ==
    /\ p \in Pending /\ calls[p].op = "deleteService" /\ calls[p].pc = "update"
    /\ IF ok /\ ServiceExists(calls[p].serviceId)
       THEN /\ services' = [services EXCEPT ![ServiceIndex(calls[p].serviceId)] =
                                SoftDelete(@, calls[p].uid)]
            /\ Finish(p, "deleteService", 0, "ok", FALSE)
       ELSE /\ UNCHANGED services
            /\ Finish(p, "deleteService", 0, "storage error", FALSE)
    /\ UNCHANGED <<restVars, loggerVars, pureVars, apps, notifications, currentUser, nCalls>>

\* The service a read returns: {id: doc.id, ...doc.data()}
ServiceData(i) == ApplyUpdates([id |-> ServiceId(i)], services[i])

\* The category filters and the search terms the callers pass ("" is none).
CategoryInputs == {"", "certificate", "license"}

SearchTermInputs == {"", "certificate", "tax"}

\* getServiceById(serviceId): the service, or the error thrown.
GetServiceById(serviceId) ==
    IF ServiceExists(serviceId)
    THEN [found |-> TRUE, service |-> ServiceData(ServiceIndex(serviceId))]
    ELSE [found |-> FALSE, error |-> "Service not found"]

\* The services in the order given, newest first (orderBy createdAt desc).
NewestFirst(seq) == [i \in DOMAIN seq |-> seq[Len(seq) + 1 - i]]

\* where('isActive', '==', true), and where('category', '==', category)
\* when a category is given
Matches(doc, category) ==
    /\ doc.exists
    /\ doc.isActive = TRUE
    /\ category # "" => doc.category = category

\* getServices(category)
GetServices(category) ==
    LET all == [i \in DOMAIN services |-> i]
        hit(i) == Matches(services[i], category)
    IN  NewestFirst([k \in DOMAIN SelectSeq(all, hit) |->
                        ServiceData(SelectSeq(all, hit)[k])])

\* text.toLowerCase().includes(searchTerm.toLowerCase()), tabulated for the
\* names and descriptions the services of the model carry
TextIncludes(text, searchTerm) ==
    \/ searchTerm = "certificate"
       /\ text \in {"Birth Certificate", "Issue birth certificate"}
    \/ searchTerm = "tax" /\ text \in {"House Tax", "Pay house tax"}

\* searchServices(searchTerm, category)
SearchServices(searchTerm, category) ==
    LET hit(service) == \/ TextIncludes(service.name, searchTerm)
                        \/ TextIncludes(service.description, searchTerm)
    IN  IF searchTerm = "" THEN GetServices(category)
        ELSE SelectSeq(GetServices(category), hit)

\* One service is in the collection, created by an earlier createService.
InitServices ==
    services = <<[exists |-> TRUE, name |-> "Birth Certificate",
                  description |-> "Issue birth certificate",
                  category |-> "certificate", isActive |-> TRUE,
                  createdBy |-> "u2"]>>

\* No value: sanitizeData has not been called, or has not returned.
NoValue == [kind |-> "none"]

\* The profiles stored in the 'users' collection: a citizen and an admin.
InitUsers ==
    users = [u \in Users |-> [exists |-> TRUE,
                              role |-> IF u = "u2" THEN "admin" ELSE "citizen",
                              isActive |-> TRUE]]

\* AuthModule as constructed.
InitAuthIdle == InitUsers /\ moduleUser = "null" /\ currentUserRole = "null"

\* A Logger without level filter and without default context.
InitLevelIdle ==
    /\ levelFilter = [set |-> FALSE]
    /\ defaultContext = [set |-> FALSE]
    /\ entryContext = [set |-> FALSE]

\* No statistics requested.
InitStatsIdle == statLogs = <<>> /\ statResult = [set |-> FALSE]

InitRestIdle == InitAuthIdle /\ InitLevelIdle /\ InitStatsIdle

\* No validator or sanitizeData call is being looked at on its own.
InitPureIdle ==
    /\ formKind = "none" /\ formData = <<>> /\ formError = "none"
    /\ sanData = NoValue /\ sanResult = NoValue

\* new ApplicationsModule(firestore, auth, logger), with user u1 signed in and
\* one application of u1 already stored by an earlier submitApplication.
InitApps ==
    /\ apps = [id \in AppIds |-> IF id = 1 THEN NewApplication("u1") ELSE NoDoc]
    /\ notifications = <<>>
    /\ currentUser = "u1"
    /\ calls = <<>>
    /\ nCalls = 0
    /\ lastResult = NoResult

NextApps ==
    \/ \E u \in Users : SwitchUser(u)
    \/ \E p \in 1..MaxPending, data \in SubmitInputs : SubmitCall(p, data)
    \/ \E p \in 1..MaxPending, ok \in BOOLEAN : SubmitService(p, ok)
    \/ \E p \in 1..MaxPending, ok \in BOOLEAN : SubmitAdd(p, ok)
    \/ \E p \in 1..MaxPending, id \in AppIds, ns \in StatusInputs, c \in CommentInputs :
          UpdateCall(p, id, ns, c)
    \/ \E p \in 1..MaxPending, ok \in BOOLEAN : UpdateRead(p, ok)
    \/ \E p \in 1..MaxPending, ok \in BOOLEAN : UpdateWrite(p, ok)
    \/ \E p \in 1..MaxPending, ok \in BOOLEAN : UpdateNotify(p, ok)
    \/ \E p \in 1..MaxPending, id \in AppIds, r \in CommentInputs : CancelCall(p, id, r)
    \/ \E p \in 1..MaxPending, ok \in BOOLEAN : CancelRead(p, ok)
    \/ \E p \in 1..MaxPending, ids \in BulkInputs, ns \in BulkStatusInputs,
          c \in BulkCommentInputs :
          BulkCall(p, ids, ns, c)
    \/ \E p \in 1..MaxPending, ok \in BOOLEAN : BulkRead(p, ok)
    \/ \E p \in 1..MaxPending, ok \in BOOLEAN : BulkCommit(p, ok)

\* The logger on its own; the application store stays as constructed.
InitLoggerSpec == InitLogger /\ InitApps /\ InitServices /\ InitPureIdle /\ InitRestIdle

SpecLogger == InitLoggerSpec /\ [][NextLogger]_vars

\* The logger when the only storage call that fails is batch.commit().
NextLoggerCommits ==
    \/ \E m \in RecordMethods : Record(m, "ok")
    \/ TimerFlush("ok")
    \/ Unload("ok")
    \/ \E f \in inflight : CommitOk(f)
    \/ \E f \in inflight : CommitFail(f)
    \/ ShutdownStart("ok", "ok")
    \/ ShutdownFinish

\* That logger with its timer firing fairly and commits that succeed in the
\* end.
SpecLoggerFair == InitLoggerSpec /\ [][NextLoggerCommits]_vars /\ FairLogger

\* The application workflow on its own; the logger stays as constructed, with
\* its defaults.
InitLoggerIdle ==
    /\ db = TRUE /\ enableConsole = TRUE /\ enableFirestore = TRUE
    /\ logBuffer = <<>> /\ nextLogId = 1 /\ consoleSink = <<>>
    /\ inflight = {} /\ persisted = {} /\ timerActive = TRUE
    /\ shutdownPc = "idle" /\ flushRejected = FALSE
    /\ lastOp = "init" /\ lastFlush = "none"

InitAppsSpec ==
    InitApps /\ InitServices /\ InitPureIdle /\ InitLoggerIdle /\ InitRestIdle

SpecApps == InitAppsSpec /\ [][NextApps]_vars

\* The two validated entry points on their own: createService and
\* submitApplication calls, interleaved.
NextForms ==
    \/ \E p \in 1..MaxPending, data \in ServiceInputs : ServiceCall(p, data)
    \/ \E p \in 1..MaxPending, ok \in BOOLEAN : ServiceAdd(p, ok)
    \/ \E p \in 1..MaxPending, data \in FormInputs : SubmitCall(p, data)
    \/ \E p \in 1..MaxPending, ok \in BOOLEAN : SubmitService(p, ok)
    \/ \E p \in 1..MaxPending, ok \in BOOLEAN : SubmitAdd(p, ok)

SpecForms == InitAppsSpec /\ [][NextForms]_vars

\* ServicesModule on its own: the administration of the 'services' collection
\* by whoever is logged in.
NextServices ==
    \/ \E u \in Users : SwitchUser(u)
    \/ \E p \in 1..MaxPending, serviceData \in ServiceInputs :
           ServiceCall(p, serviceData)
    \/ \E p \in 1..MaxPending, ok \in BOOLEAN : ServiceAdd(p, ok)
    \/ \E p \in 1..MaxPending, serviceId \in ServiceIdInputs,
          updateData \in UpdateInputs : UpdateServiceCall(p, serviceId, updateData)
    \/ \E p \in 1..MaxPending, ok \in BOOLEAN : UpdateServiceWrite(p, ok)
    \/ \E p \in 1..MaxPending, serviceId \in ServiceIdInputs :
           DeleteServiceCall(p, serviceId)
    \/ \E p \in 1..MaxPending, ok \in BOOLEAN : DeleteServiceWrite(p, ok)

SpecServices == InitAppsSpec /\ [][NextServices]_vars

(***************************************************************************)
(* The validators on their own: one call of validateServiceData or         *)
(* validateApplicationData on an input object.                             *)
(***************************************************************************)
\* All sequences over alphabet of length at most n.
RECURSIVE SeqsUpTo(_, _)
SeqsUpTo(alphabet, n) ==
    IF n = 0 THEN {<<>>}
    ELSE LET shorter == SeqsUpTo(alphabet, n - 1)
         IN  shorter \cup {Append(t, ch) : t \in shorter, ch \in alphabet}

\* The objects that map some of the given fields to one of their values.
RECURSIVE Objects(_, _)
Objects(fields, valuesOf) ==
    IF fields = {} THEN {<<>>}
    ELSE LET f == CHOOSE x \in fields : TRUE
             rest == Objects(fields \ {f}, valuesOf)
         IN  rest \cup {(f :> v) @@ o : v \in valuesOf[f], o \in rest}

EmailInputs == SeqsUpTo({"a", "@", ".", " "}, MaxEmailLen)

\* Phone numbers of d digits: bare, grouped by dashes, with a country prefix.
DigitAt(i) == ToString(i % 10)
Plain(d) == [i \in 1..d |-> DigitAt(i)]
RECURSIVE Dashed(_)
Dashed(d) == IF d <= 3 THEN Plain(d) ELSE Plain(3) \o <<"-">> \o Dashed(d - 3)
PhoneInputs ==
    UNION {{Plain(d), Dashed(d), <<"+">> \o Plain(d), <<"(">> \o Dashed(d) \o <<")">>} :
              d \in 0..MaxDigits}

ServiceDataInputs ==
    Objects({"name", "description", "category"},
            [name |-> {"", "Birth Certificate"},
             description |-> {"", "Issue birth certificate"},
             category |-> {"", "certificate", "license", "welfare", "other", "tax"}])

ApplicationDataInputs ==
    Objects({"serviceId", "applicantName", "applicantEmail", "applicantPhone"},
            [serviceId |-> {"", "s1"},
             applicantName |-> {"", "Asha"},
             applicantEmail |-> {<<>>, GoodEmail, <<"a", "@", "b">>},
             applicantPhone |-> {<<>>, GoodPhone, <<"1", "2", "3">>}])
    \cup {ApplicationData("s1", "Asha", e, ph) :
             e \in EmailInputs, ph \in {GoodPhone, <<"1", "2", "3">>}}
    \cup {ApplicationData("s1", "Asha", GoodEmail, ph) : ph \in PhoneInputs}

\* this.validateServiceData(formData)
ValidateService ==
    /\ formKind = "service" /\ formError = "none"
    /\ formError' = ValidateServiceData(formData)
    /\ UNCHANGED <<restVars, loggerVars, appVars, serviceVars, formKind, formData, sanData, sanResult>>

\* this.validateApplicationData(formData)
ValidateApplication ==
    /\ formKind = "application" /\ formError = "none"
    /\ formError' = ValidateApplicationData(formData)
    /\ UNCHANGED <<restVars, loggerVars, appVars, serviceVars, formKind, formData, sanData, sanResult>>

InitValidate ==
    /\ \/ formKind = "service" /\ formData \in ServiceDataInputs
       \/ formKind = "application" /\ formData \in ApplicationDataInputs
    /\ formError = "none"
    /\ sanData = NoValue /\ sanResult = NoValue

NextValidate == ValidateService \/ ValidateApplication

InitValidateSpec ==
    InitValidate /\ InitApps /\ InitServices /\ InitLoggerIdle /\ InitRestIdle

SpecValidate == InitValidateSpec /\ [][NextValidate]_vars

(***************************************************************************)
(* Logger.sanitizeData on its own                                          *)
(* A value is a scalar, a mapping (object) from keys to values, or a       *)
(* sequence (array) of values; a key is a sequence of one-character        *)
(* strings, so that it can be lower-cased and searched.                    *)
(***************************************************************************)
Str(text) == [kind |-> "str", str |-> text]
Obj(entries) == [kind |-> "obj", obj |-> entries]
Arr(items) == [kind |-> "arr", arr |-> items]

\* const sensitiveFields = [...]
sensitiveFields ==
    {<<"p", "a", "s", "s", "w", "o", "r", "d">>,
     <<"t", "o", "k", "e", "n">>,
     <<"s", "e", "c", "r", "e", "t">>,
     <<"k", "e", "y">>,
     <<"a", "u", "t", "h">>,
     <<"c", "r", "e", "d", "e", "n", "t", "i", "a", "l">>}

UpperCase == <<"A", "B", "C", "D", "E", "F", "G", "H", "I", "J", "K", "L", "M">> \o
             <<"N", "O", "P", "Q", "R", "S", "T", "U", "V", "W", "X", "Y", "Z">>
LowerCase == <<"a", "b", "c", "d", "e", "f", "g", "h", "i", "j", "k", "l", "m">> \o
             <<"n", "o", "p", "q", "r", "s", "t", "u", "v", "w", "x", "y", "z">>

\* String.prototype.toLowerCase, one character at a time
\* (faulty variant: the character is kept as it is)
ToLowerCaseKeeps(ch) == ch
ToLowerCase(ch) ==
    IF \E i \in DOMAIN UpperCase : UpperCase[i] = ch
    THEN LowerCase[CHOOSE i \in DOMAIN UpperCase : UpperCase[i] = ch]
    ELSE ch

\* text.includes(field)
Includes(text, field) ==
    \E i \in 0..(Len(text) - Len(field)) :
        SubSeq(text, i + 1, i + Len(field)) = field

\* sensitiveFields.some(field => key.toLowerCase().includes(field))
Sensitive(key) ==
    LET lowerKey == [i \in DOMAIN key |-> ToLowerCase(key[i])]
    IN  \E field \in sensitiveFields : Includes(lowerKey, field)

Redacted == Str("[REDACTED]")

\* The inner function sanitizeObject.
RECURSIVE SanitizeObject(_)
SanitizeObject(obj) ==
    IF obj.kind = "arr"
    THEN Arr([i \in DOMAIN obj.arr |-> SanitizeObject(obj.arr[i])])
    ELSE IF obj.kind = "obj"
    THEN Obj([key \in DOMAIN obj.obj |->
                 IF Sensitive(key) THEN Redacted ELSE SanitizeObject(obj.obj[key])])
    ELSE obj

\* The property name of the i-th element of an array: "0", "1", ...
IndexKey(i) == <<ToString(i - 1)>>

\* { ...data }: a new plain object with the own enumerable properties of
\* data; those of an array are its indices.
Spread(data) ==
    IF data.kind = "arr"
    THEN Obj([key \in {IndexKey(i) : i \in DOMAIN data.arr} |->
                 data.arr[CHOOSE i \in DOMAIN data.arr : IndexKey(i) = key]])
    ELSE Obj(data.obj)

\* Logger.sanitizeData(data)
SanitizeData(data) ==
    IF data.kind \notin {"obj", "arr"} THEN data
    ELSE SanitizeObject(Spread(data))

\* The values explored.
KeyInputs == {<<"i", "d">>, <<"t", "a", "g", "s">>, <<"a", "p", "i", "K", "e", "y">>}
MoreKeyInputs ==
    {<<"P", "a", "s", "s", "w", "o", "r", "d">>,
     <<"a", "u", "t", "h", "T", "o", "k", "e", "n">>,
     <<"m", "o", "n", "k", "e", "y">>,
     <<"S", "E", "C", "R", "E", "T">>,
     <<"p", "a", "s", "s">>,
     <<"u", "s", "e", "r", "_", "c", "r", "e", "d", "e", "n", "t", "i", "a", "l", "s">>,
     <<"t", "o", "k">>}
ObjectsOver(keys, values) == UNION {[ks -> values] : ks \in SUBSET keys}
ArraysOver(values) == UNION {[1..n -> values] : n \in 0..MaxArrayLen}
Nested(values) ==
    values \cup {Obj(entries) : entries \in ObjectsOver(KeyInputs, values)}
           \cup {Arr(items) : items \in ArraysOver(values)}
Level0 == {Str("x")}
Level1 == Nested(Level0)
Level2 == Nested(Level1)
SanInputs ==
    Level2 \cup {Obj(key :> Str("x")) : key \in MoreKeyInputs}
           \cup {Obj(<<"t", "a", "g", "s">> :> v) : v \in Level2}
           \cup {Arr(<<v>>) : v \in Level2}

\* this.sanitizeData(sanData): the argument is not written to.
Sanitize ==
    /\ sanResult = NoValue
    /\ sanResult' = SanitizeData(sanData)
    /\ UNCHANGED <<restVars, loggerVars, appVars, serviceVars, formKind, formData, formError, sanData>>

InitSanitize ==
    /\ sanData \in SanInputs
    /\ sanResult = NoValue
    /\ formKind = "none" /\ formData = <<>> /\ formError = "none"

NextSanitize == Sanitize

InitSanitizeSpec ==
    InitSanitize /\ InitApps /\ InitServices /\ InitLoggerIdle /\ InitRestIdle

SpecSanitize == InitSanitizeSpec /\ [][NextSanitize]_vars

(***************************************************************************)
(* AuthModule: login, logout, deactivateUser and the auth-state handler.   *)
(* currentUser is the user signed in at the identity provider (this.auth), *)
(* moduleUser and currentUserRole are the fields of AuthModule.  The       *)
(* handler of onAuthStateChanged is registered; the provider calls it when *)
(* its signed-in user changes.                                             *)
(***************************************************************************)
\* The roles a login form offers.
RoleInputs == {"citizen", "admin"}

\* hasRole(requiredRole), for a single role
HasRole(requiredRole) ==
    IF currentUserRole = "null" THEN FALSE ELSE currentUserRole = requiredRole

\* The calls with one more pending: the handler the provider has called for
\* the user who signed in, up to its await of the profile read.
WithHandler(pending, uid) ==
    Append(pending, [op |-> "handler", pc |-> "read", uid |-> uid])

\* login(email, password, role) with the credentials of uid, up to the await
\* of signInWithEmailAndPassword.
LoginCall(p, uid, role) ==
    /\ FreeSlot(p) /\ Len(calls) + 1 < MaxPending /\ nCalls < MaxOps
    /\ nCalls' = nCalls + 1
    /\ calls' = Put(p, [op |-> "login", pc |-> "signIn", uid |-> uid, role |-> role,
                        error |-> "none"])
    /\ UNCHANGED <<lastResult, currentUser, authVars>>
    /\ UNCHANGED <<loggerVars, serviceVars, pureVars, logOptVars, apps, notifications>>

\* login: the sign-in resolves (the provider has the user, and calls the
\* handler when that is a change) or rejects.
LoginSignIn(p, ok) ==
    /\ p \in Pending /\ calls[p].op = "login" /\ calls[p].pc = "signIn"
    /\ IF ok
       THEN /\ currentUser' = calls[p].uid
            /\ calls' = IF currentUser # calls[p].uid
                        THEN WithHandler([calls EXCEPT ![p].pc = "profile"],
                                         calls[p].uid)
                        ELSE [calls EXCEPT ![p].pc = "profile"]
            /\ UNCHANGED lastResult
       ELSE /\ Finish(p, "login", 0, "sign-in error", FALSE)
            /\ UNCHANGED currentUser
    /\ UNCHANGED <<authVars, nCalls>>
    /\ UNCHANGED <<loggerVars, serviceVars, pureVars, logOptVars, apps, notifications>>

\* login: the read of the profile resolves or rejects; the role and isActive
\* checks; this.currentUser and this.currentUserRole are set when they pass.
LoginProfile(p, ok) ==
    /\ p \in Pending /\ calls[p].op = "login" /\ calls[p].pc = "profile"
    /\ LET userData == users[calls[p].uid]
       IN  CASE ~ok ->
                  /\ Finish(p, "login", 0, "storage error", FALSE)
                  /\ UNCHANGED <<moduleUser, currentUserRole>>
             [] ok /\ ~userData.exists ->
                  /\ Finish(p, "login", 0, "User profile not found", FALSE)
                  /\ UNCHANGED <<moduleUser, currentUserRole>>
             [] ok /\ userData.exists /\ userData.role # calls[p].role ->
                  /\ calls' = [calls EXCEPT ![p].pc = "signOut",
                                            ![p].error = "Invalid role selected"]
                  /\ UNCHANGED <<lastResult, moduleUser, currentUserRole>>
             [] ok /\ userData.exists /\ userData.role = calls[p].role
                   /\ ~userData.isActive ->
                  /\ calls' = [calls EXCEPT ![p].pc = "signOut",
                                            ![p].error = "Account is deactivated"]
                  /\ UNCHANGED <<lastResult, moduleUser, currentUserRole>>
             [] OTHER ->
                  /\ moduleUser' = calls[p].uid
                  /\ currentUserRole' = calls[p].role
                  /\ calls' = [calls EXCEPT ![p].pc = "lastLogin"]
                  /\ UNCHANGED lastResult
    /\ UNCHANGED <<users, currentUser, nCalls>>
    /\ UNCHANGED <<loggerVars, serviceVars, pureVars, logOptVars, apps, notifications>>

\* The provider's signOut resolves: it has no user, and when that is a change
\* it calls the handler, which clears the fields of AuthModule at once.
SignedOut(field) == IF currentUser # "null" THEN "null" ELSE field

\* login: the signOut after a failed check resolves or rejects; login throws.
LoginSignOut(p, ok) ==
    /\ p \in Pending /\ calls[p].op = "login" /\ calls[p].pc = "signOut"
    /\ IF ok
       THEN /\ currentUser' = "null"
            /\ moduleUser' = SignedOut(moduleUser)
            /\ currentUserRole' = SignedOut(currentUserRole)
            /\ Finish(p, "login", 0, calls[p].error, FALSE)
       ELSE /\ Finish(p, "login", 0, "sign-out error", FALSE)
            /\ UNCHANGED <<currentUser, moduleUser, currentUserRole>>
    /\ UNCHANGED <<users, nCalls>>
    /\ UNCHANGED <<loggerVars, serviceVars, pureVars, logOptVars, apps, notifications>>

\* login: the update of lastLogin resolves or rejects.
LoginLastLogin(p, ok) ==
    /\ p \in Pending /\ calls[p].op = "login" /\ calls[p].pc = "lastLogin"
    /\ Finish(p, "login", 0, IF ok THEN "ok" ELSE "storage error", FALSE)
    /\ UNCHANGED <<authVars, currentUser, nCalls>>
    /\ UNCHANGED <<loggerVars, serviceVars, pureVars, logOptVars, apps, notifications>>

\* logout(), up to the await of signOut.
LogoutCall(p) ==
    /\ FreeSlot(p) /\ nCalls < MaxOps
    /\ nCalls' = nCalls + 1
    /\ calls' = Put(p, [op |-> "logout", pc |-> "signOut"])
    /\ UNCHANGED <<lastResult, currentUser, authVars>>
    /\ UNCHANGED <<loggerVars, serviceVars, pureVars, logOptVars, apps, notifications>>

\* logout: signOut resolves, and logout clears the fields, or rejects.
LogoutSignOut(p, ok) ==
    /\ p \in Pending /\ calls[p].op = "logout" /\ calls[p].pc = "signOut"
    /\ IF ok
       THEN /\ currentUser' = "null"
            /\ moduleUser' = "null"
            /\ currentUserRole' = "null"
            /\ Finish(p, "logout", 0, "ok", FALSE)
       ELSE /\ Finish(p, "logout", 0, "sign-out error", FALSE)
            /\ UNCHANGED <<currentUser, moduleUser, currentUserRole>>
    /\ UNCHANGED <<users, nCalls>>
    /\ UNCHANGED <<loggerVars, serviceVars, pureVars, logOptVars, apps, notifications>>

\* The handler called for a signed-in user: its read of the profile resolves
\* or rejects; with a profile it sets this.currentUser and
\* this.currentUserRole.
HandlerRead(p, ok) ==
    /\ p \in Pending /\ calls[p].op = "handler" /\ calls[p].pc = "read"
    /\ IF ok /\ users[calls[p].uid].exists
       THEN /\ moduleUser' = calls[p].uid
            /\ currentUserRole' = users[calls[p].uid].role
       ELSE UNCHANGED <<moduleUser, currentUserRole>>
    /\ calls' = Remove(calls, p)
    /\ UNCHANGED <<users, currentUser, nCalls, lastResult>>
    /\ UNCHANGED <<loggerVars, serviceVars, pureVars, logOptVars, apps, notifications>>

\* deactivateUser(userId): the role check, up to the await of the update.
DeactivateUserCall(p, userId) ==
    /\ FreeSlot(p) /\ nCalls < MaxOps
    /\ nCalls' = nCalls + 1
    /\ IF HasRole("admin")
       THEN /\ calls' = Put(p, [op |-> "deactivateUser", pc |-> "update",
                                userId |-> userId])
            /\ UNCHANGED lastResult
       ELSE Finish(p, "deactivateUser", 0, "Insufficient permissions", FALSE)
    /\ UNCHANGED <<currentUser, authVars>>
    /\ UNCHANGED <<loggerVars, serviceVars, pureVars, logOptVars, apps, notifications>>

\* deactivateUser: the update resolves or rejects.
DeactivateUserWrite(p, ok) ==
    /\ p \in Pending /\ calls[p].op = "deactivateUser" /\ calls[p].pc = "update"
    /\ IF ok /\ users[calls[p].userId].exists
       THEN /\ users' = [users EXCEPT ![calls[p].userId].isActive = FALSE]
            /\ Finish(p, "deactivateUser", 0, "ok", FALSE)
       ELSE /\ UNCHANGED users
            /\ Finish(p, "deactivateUser", 0, "storage error", FALSE)
    /\ UNCHANGED <<currentUser, moduleUser, currentUserRole, nCalls>>
    /\ UNCHANGED <<loggerVars, serviceVars, pureVars, logOptVars, apps, notifications>>

NextAuth ==
    \/ \E p \in 1..MaxPending, uid \in Users, role \in RoleInputs :
           LoginCall(p, uid, role)
    \/ \E p \in 1..MaxPending, ok \in BOOLEAN : LoginSignIn(p, ok)
    \/ \E p \in 1..MaxPending, ok \in BOOLEAN : LoginProfile(p, ok)
    \/ \E p \in 1..MaxPending, ok \in BOOLEAN : LoginSignOut(p, ok)
    \/ \E p \in 1..MaxPending, ok \in BOOLEAN : LoginLastLogin(p, ok)
    \/ \E p \in 1..MaxPending : LogoutCall(p)
    \/ \E p \in 1..MaxPending, ok \in BOOLEAN : LogoutSignOut(p, ok)
    \/ \E p \in 1..MaxPending, ok \in BOOLEAN : HandlerRead(p, ok)
    \/ \E p \in 1..MaxPending, userId \in Users : DeactivateUserCall(p, userId)
    \/ \E p \in 1..MaxPending, ok \in BOOLEAN : DeactivateUserWrite(p, ok)

\* Nobody is signed in; the profile of u1 is active, was deactivated, or is
\* missing from the 'users' collection.
InitAuth ==
    /\ users \in {[u \in Users |->
                     [exists |-> (u = "u2" \/ present),
                      role |-> IF u = "u2" THEN "admin" ELSE "citizen",
                      isActive |-> (u = "u2" \/ active)]] :
                  present \in BOOLEAN, active \in BOOLEAN}
    /\ moduleUser = "null" /\ currentUserRole = "null"
    /\ currentUser = "null"
    /\ apps = [id \in AppIds |-> NoDoc]
    /\ notifications = <<>>
    /\ calls = <<>>
    /\ nCalls = 0
    /\ lastResult = NoResult

InitAuthSpec ==
    /\ InitAuth /\ InitServices /\ InitPureIdle /\ InitLoggerIdle
    /\ InitLevelIdle /\ InitStatsIdle

SpecAuth == InitAuthSpec /\ [][NextAuth]_vars

(***************************************************************************)
(* The Logger's level filter and child loggers.                            *)
(***************************************************************************)
\* const levels = ['DEBUG', 'INFO', 'WARN', 'ERROR']
levels == <<"DEBUG", "INFO", "WARN", "ERROR">>

\* levels.indexOf(level): the zero-based position, or -1
IndexOf(seq, x) ==
    IF \E i \in DOMAIN seq : seq[i] = x
    THEN (CHOOSE i \in DOMAIN seq : seq[i] = x) - 1
    ELSE -1

\* level.toUpperCase(), for the level names in use
LevelUpperCase(level) ==
    CASE level = "debug" -> "DEBUG"
      [] level = "info" -> "INFO"
      [] level = "warn" -> "WARN"
      [] level = "error" -> "ERROR"
      [] level = "security" -> "SECURITY"
      [] level = "performance" -> "PERFORMANCE"
      [] level = "user_action" -> "USER_ACTION"
      [] level = "verbose" -> "VERBOSE"
      [] OTHER -> level

\* The levels passed to setLogLevel and as options.logLevel.
LogLevelInputs == {"debug", "info", "warn", "error", "WARN", "verbose"}

\* this.minLevel and this.minLevelIndex after setLogLevel(level)
LevelFilter(level) ==
    [set |-> TRUE,
     minLevel |-> LevelUpperCase(level),
     minLevelIndex |-> IF IndexOf(levels, LevelUpperCase(level)) = -1 THEN 1
                       ELSE IndexOf(levels, LevelUpperCase(level))]

\* shouldLog(level); log() does not call it.
ShouldLog(level) ==
    IF ~levelFilter.set THEN TRUE
    ELSE IndexOf(levels, LevelUpperCase(level)) >= levelFilter.minLevelIndex

\* The level each record method passes to log().
MethodLevel(method) == IF method = "userAction" THEN "user_action" ELSE method

\* The record methods that fix the level themselves.
LevelMethods == RecordMethods \ {"log"}

\* An object without keys.
EmptyObject == [k \in {} |-> ""]

\* The context objects the callers pass.
ContextInputs == {EmptyObject, [userId |-> "u1"], [module |-> "auth"]}

\* The context each record method passes to log().
MethodContext(method, context) ==
    CASE method = "security" -> ApplyUpdates(context, [security |-> "true"])
      [] method = "performance" -> [performance |-> "true"]
      [] method = "userAction" -> [userId |-> "u2", userAction |-> "true"]
      [] OTHER -> context

\* logEntry.context: {sessionId, userAgent, url, ...context}
EntryContext(context) ==
    ApplyUpdates([sessionId |-> "session", userAgent |-> "agent", url |-> "url"],
                 context)

\* {...this.defaultContext}
SpreadDefault == IF defaultContext.set THEN defaultContext.ctx ELSE EmptyObject

\* setLogLevel(level)
SetLogLevel(level) ==
    /\ levelFilter' = LevelFilter(level)
    /\ UNCHANGED <<loggerVars, appVars, serviceVars, pureVars, authVars,
                   defaultContext, entryContext, statLogs, statResult>>

\* One call of a record method with a context: the entry it builds and what
\* log() does with it.
LogEntry(method, context, oc) ==
    /\ LogCall(method, oc)
    /\ entryContext' = [set |-> TRUE, level |-> LevelUpperCase(MethodLevel(method)),
                        ctx |-> EntryContext(MethodContext(method, context))]
    /\ UNCHANGED <<levelFilter, defaultContext>>

\* child(context): from here on the calls go through the logger returned, a
\* new Logger on the same db with the merged context as its defaultContext.
\* The console and the storage are the parent's.
Child(context) ==
    /\ defaultContext' = [set |-> TRUE, ctx |-> ApplyUpdates(SpreadDefault, context)]
    /\ levelFilter' = [set |-> FALSE]
    /\ entryContext' = [set |-> FALSE]
    /\ logBuffer' = <<>>
    /\ timerActive' = ShouldBuffer
    /\ shutdownPc' = "idle"
    /\ lastOp' = "init"
    /\ lastFlush' = "none"
    /\ UNCHANGED <<appVars, serviceVars, pureVars, authVars, statLogs, statResult,
                   db, enableConsole, enableFirestore, nextLogId, consoleSink,
                   inflight, persisted, flushRejected>>

\* initLogger(firestore, options): a new Logger, with setLogLevel called when
\* options.logLevel is given.
InitLoggerOptions ==
    /\ InitLogger
    /\ levelFilter \in {[set |-> FALSE]} \cup {LevelFilter(l) : l \in LogLevelInputs}
    /\ defaultContext = [set |-> FALSE]
    /\ entryContext = [set |-> FALSE]

NextLevels ==
    \/ \E level \in LogLevelInputs : SetLogLevel(level)
    \/ \E method \in LevelMethods, context \in ContextInputs,
          oc \in RecordOutcomes : LogEntry(method, context, oc)
    \/ \E context \in ContextInputs : Child(context)

InitLevelsSpec ==
    /\ InitLoggerOptions /\ InitApps /\ InitServices /\ InitPureIdle
    /\ InitAuthIdle /\ InitStatsIdle

SpecLevels == InitLevelsSpec /\ [][NextLevels]_vars

(***************************************************************************)
(* getLogStatistics as a function of the logs getLogs returned.            *)
(***************************************************************************)
\* The number of logs of the model's inputs.
MaxLogs == 3

\* .slice(0, 10)
TopErrorsLimit == 10

\* The levels and messages of the stored logs.
StatLevels == {"ERROR", "INFO"}

StatMessages == {"X", "Y", "7"}

StatLogInputs == SeqsUpTo([level : StatLevels, message : StatMessages], MaxLogs)

\* The property keys that are array indices (canonical integer strings), with
\* their numeric values.
IndexKeys == [k \in {"7"} |-> 7]

\* The distinct messages of the ERROR logs, in the order they are first seen:
\* the order in which errorMessages gets its string keys.
RECURSIVE FirstSeen(_)
FirstSeen(logs) ==
    IF logs = <<>> THEN <<>>
    ELSE LET before == FirstSeen(SubSeq(logs, 1, Len(logs) - 1))
             log == logs[Len(logs)]
         IN  IF log.level = "ERROR"
                /\ \A i \in DOMAIN before : before[i] # log.message
             THEN Append(before, log.message)
             ELSE before

\* errorMessages[message] after the loop.
ErrorCount(logs, message) ==
    Cardinality({i \in DOMAIN logs :
                    logs[i].level = "ERROR" /\ logs[i].message = message})

\* The keys that are array indices, in ascending numeric order.
RECURSIVE Ascending(_)
Ascending(keys) ==
    IF keys = {} THEN <<>>
    ELSE LET least == CHOOSE k \in keys :
                          \A other \in keys : IndexKeys[k] <= IndexKeys[other]
         IN  <<least>> \o Ascending(keys \ {least})

\* The order in which Object.entries lists the keys of errorMessages: the
\* array indices first, ascending, then the other keys in insertion order.
OwnKeys(logs) ==
    LET seen == FirstSeen(logs)
        isIndex(k) == k \in DOMAIN IndexKeys
        isName(k) == k \notin DOMAIN IndexKeys
    IN  Ascending({seen[i] : i \in DOMAIN SelectSeq(seen, isIndex)}
                    \cap DOMAIN IndexKeys)
        \o SelectSeq(seen, isName)

\* Object.entries(errorMessages)
Entries(logs) ==
    [i \in DOMAIN OwnKeys(logs) |->
        [message |-> OwnKeys(logs)[i], count |-> ErrorCount(logs, OwnKeys(logs)[i])]]

\* .sort((a, b) => b[1] - a[1]): a stable sort by descending count.
RECURSIVE InsertByCount(_, _)
InsertByCount(sorted, entry) ==
    IF sorted = <<>> THEN <<entry>>
    ELSE IF Last(sorted).count >= entry.count THEN Append(sorted, entry)
    ELSE Append(InsertByCount(SubSeq(sorted, 1, Len(sorted) - 1), entry),
                Last(sorted))

RECURSIVE SortByCount(_)
SortByCount(entries) ==
    IF entries = <<>> THEN <<>>
    ELSE InsertByCount(SortByCount(SubSeq(entries, 1, Len(entries) - 1)),
                       Last(entries))

\* .slice(0, n)
Slice(seq, n) == SubSeq(seq, 1, IF Len(seq) < n THEN Len(seq) ELSE n)

\* stats.topErrors
TopErrors(logs) == Slice(SortByCount(Entries(logs)), TopErrorsLimit)

\* stats.errorRate, as the fraction <<numerator, denominator>>
ErrorRate(logs) ==
    IF Len(logs) > 0
    THEN <<Cardinality({i \in DOMAIN logs : logs[i].level = "ERROR"}), Len(logs)>>
    ELSE <<0, 1>>

\* getLogStatistics(filters): getLogs resolves with the logs, or rejects.
GetLogStatistics(ok) ==
    /\ statResult = [set |-> FALSE]
    /\ statResult' = IF ok
                     THEN [set |-> TRUE, ok |-> TRUE, total |-> Len(statLogs),
                           errorRate |-> ErrorRate(statLogs),
                           topErrors |-> TopErrors(statLogs)]
                     ELSE [set |-> TRUE, ok |-> FALSE]
    /\ UNCHANGED <<loggerVars, appVars, serviceVars, pureVars, authVars,
                   levelFilter, defaultContext, entryContext, statLogs>>

InitStats == statLogs \in StatLogInputs /\ statResult = [set |-> FALSE]

NextStats == \E ok \in BOOLEAN : GetLogStatistics(ok)

InitStatsSpec ==
    /\ InitStats /\ InitApps /\ InitServices /\ InitPureIdle /\ InitLoggerIdle
    /\ InitAuthIdle /\ InitLevelIdle

SpecStats == InitStatsSpec /\ [][NextStats]_vars

(***************************************************************************)
(* Claims about the logger, checked under SpecLogger.                      *)
(***************************************************************************)
\* A step that is one record call.
RecordStep == lastOp' = "record" /\ nextLogId' = nextLogId + 1

Count(s, e) == Cardinality({i \in DOMAIN s : s[i] = e})

\* C1: when the batch commit of a flush fails, every entry swapped out for
\* that flush is back in the buffer when the flush returns.
C1_FailedBatchRequeued ==
    [][\A f \in inflight :
          (lastOp' = "commitFail" /\ f \notin inflight')
              => Range(f.batch) \subseteq Range(logBuffer')]_loggerVars

\* C2: after a failed flush returns, each entry that was recorded into the
\* buffer while the flush was in flight occurs exactly once in the buffer.
C2_NoDuplicationOnFailure ==
    [][lastOp' = "commitFail"
          => \A e \in Range(logBuffer) : Count(logBuffer', e) = 1]_loggerVars

\* C3: no entry is at the same time in two in-flight batches or in both an
\* in-flight batch and the buffer; a record call made while flushes are in
\* flight leaves every in-flight batch as it is, and when it triggers no flush
\* of its own its entry is the new last element of the buffer.
C3_SwapIndivisible ==
    /\ [](/\ \A f \in inflight : Range(f.batch) \cap Range(logBuffer) = {}
          /\ \A f, g \in inflight :
                f # g => Range(f.batch) \cap Range(g.batch) = {})
    /\ [][RecordStep /\ enableFirestore /\ db
             => /\ inflight \subseteq inflight'
                /\ \A f \in inflight : nextLogId \notin Range(f.batch)
                /\ lastFlush' = "none"
                      => logBuffer' = Append(logBuffer, nextLogId)]_loggerVars

\* C3 witness: an entry was recorded while two flushes were in flight.
C3_Witness ==
    /\ lastOp = "record"
    /\ Cardinality(inflight) = 2
    /\ logBuffer # <<>>

\* The buffer part of C4, common to the claim and its amendment.
C4_BufferEffect ==
    /\ (enableFirestore /\ db /\ Len(logBuffer) < maxBufferSize - 1)
          => /\ logBuffer' = Append(logBuffer, nextLogId)
             /\ inflight' = inflight
             /\ lastFlush' = "none"
    /\ ~(enableFirestore /\ db)
          => /\ logBuffer' = logBuffer
             /\ logBuffer = <<>>

\* C4 as claimed: every record call mirrors its entry to the console exactly
\* once, appends it to the buffer without a flush when persistence is enabled
\* and the buffer is below maxBufferSize-1, and leaves the buffer empty when
\* persistence is disabled.
C4_AsClaimed ==
    [][RecordStep
          => /\ consoleSink' = Append(consoleSink, nextLogId)
             /\ C4_BufferEffect]_loggerVars

\* C4 amended: the entry is mirrored to the console exactly once when
\* enableConsole is set and not at all when it is not; the buffer part is as
\* claimed.
C4_Amended ==
    [][RecordStep
          => /\ enableConsole => consoleSink' = Append(consoleSink, nextLogId)
             /\ ~enableConsole => consoleSink' = consoleSink
             /\ C4_BufferEffect]_loggerVars

\* C4 witness: a record call with the console disabled and persistence
\* enabled has appended its entry and mirrored nothing.
C4_Witness ==
    /\ lastOp = "record"
    /\ ~enableConsole /\ enableFirestore /\ db
    /\ logBuffer = <<1>>
    /\ consoleSink = <<>>

\* What C5 says of the record call that fills the buffer and of the one that
\* follows a swap.
C5_FlushedOnce ==
    /\ logBuffer' = <<>>
    /\ \E f \in inflight' \ inflight :
          /\ f.batch = Append(logBuffer, nextLogId)
          /\ inflight' = inflight \cup {f}

C5_NextIntoFreshBuffer ==
    (logBuffer = <<>> /\ maxBufferSize > 1)
        => /\ logBuffer' = <<nextLogId>>
           /\ inflight' = inflight

C6_TimerCancelledByShutdown ==
    shutdownPc = "done" => lastOp # "timer"

\* C7: whichever storage call fails, and whichever trigger started the
\* flush, no promise returned by flushLogs is rejected.
C7_FlushNeverRejects == ~flushRejected

\* C7 witness: a commit has failed, the catch branch has run on a buffer
\* that holds entries, and nothing was rejected.
C7_Witness ==
    /\ lastOp = "commitFail"
    /\ logBuffer # <<>>
    /\ ~flushRejected

(***************************************************************************)
(* Claims about the application workflow, checked under SpecApps.          *)
(***************************************************************************)
\* C8: in every reachable state the status of the last statusHistory entry of
\* every application equals its status field, and no step changes the
\* status without also changing the history.
C8_StatusMatchesHistory ==
    /\ [](\A id \in AppIds :
             apps[id].exists
                => /\ apps[id].statusHistory # <<>>
                   /\ Last(apps[id].statusHistory).status = apps[id].status)
    /\ [][\A id \in AppIds :
             (apps[id].exists /\ apps'[id].status # apps[id].status)
                => apps'[id].statusHistory # apps[id].statusHistory]_vars

\* C8 witness: an application that went through two successful status
\* changes, one by updateApplicationStatus and one by bulkUpdateStatus.
C8_Witness ==
    /\ Len(apps[1].statusHistory) = 3
    /\ \E i \in 2..3 : apps[1].statusHistory[i].comments = "Bulk update to rejected"
    /\ \E i \in 2..3 : apps[1].statusHistory[i].status = "approved"

\* C9: when the update of an updateApplicationStatus call is stored and the
\* application is still as that call read it, statusHistory becomes its
\* previous value with one entry appended: status = newStatus, updatedBy =
\* the caller, comments = the given comments or 'Status changed to
\* <newStatus>'.
C9_AppendsOneEntry ==
    [][\A p \in DOMAIN calls :
          (/\ calls[p].op = "update" /\ calls[p].pc = "write"
           /\ calls' = [calls EXCEPT ![p].pc = "notify"]
           /\ calls[p].currentData = apps[calls[p].id])
             => apps'[calls[p].id].statusHistory =
                   Append(apps[calls[p].id].statusHistory,
                          [status |-> calls[p].newStatus,
                           updatedBy |-> calls[p].caller,
                           comments |-> IF calls[p].comments = ""
                                        THEN "Status changed to " \o calls[p].newStatus
                                        ELSE calls[p].comments])]_vars

\* C9 witness: an update called without comments has been stored on an
\* application nobody else touched; the default comment is in the new entry.
C9_Witness ==
    \E p \in DOMAIN calls :
        /\ calls[p].op = "update" /\ calls[p].pc = "notify"
        /\ calls[p].comments = ""
        /\ Len(apps[calls[p].id].statusHistory) = Len(calls[p].currentData.statusHistory) + 1
        /\ Last(apps[calls[p].id].statusHistory).comments = "Status changed to approved"

\* C10: a cancelApplication call by the owner of an existing pending
\* application, not hit by a storage failure, succeeds and leaves the
\* application cancelled, with 'cancelled' as the last history entry.
C10_OwnerCancelsPending ==
    (/\ lastResult.op = "cancel"
     /\ lastResult.eligible
     /\ lastResult.outcome # "storage error")
        => /\ lastResult.outcome = "ok"
           /\ apps[lastResult.id].status = "cancelled"
           /\ Last(apps[lastResult.id].statusHistory).status = "cancelled"

\* The errors cancelApplication raises before it calls
\* updateApplicationStatus.
CancelErrors ==
    {"storage error", "Application not found",
     "Unauthorized to cancel this application",
     "Application cannot be cancelled at this stage"}

\* The application the call would cancel is missing, not the caller's, or
\* not pending.
CancelIneligible(id) ==
    \/ ~apps[id].exists
    \/ apps[id].userId # currentUser
    \/ apps[id].status # "pending"

\* C11: a cancelApplication call whose get resolves on an application that
\* is missing, not owned by the caller or not pending ends at that step with
\* an error raised to the caller; the step changes no application (status and
\* statusHistory included) and creates no notification.
C11_IneligibleCancelFails ==
    [][\A p \in DOMAIN calls :
          (/\ calls[p].op = "cancel" /\ calls[p].pc = "read"
           /\ CancelIneligible(calls[p].id))
             => \/ (p \in DOMAIN calls' /\ calls'[p] = calls[p])
                \/ (p > 1 /\ calls'[p - 1] = calls[p])
                \/ /\ calls' = Remove(calls, p)
                   /\ lastResult'.op = "cancel"
                   /\ lastResult'.id = calls[p].id
                   /\ lastResult'.outcome \in CancelErrors
                   /\ apps' = apps
                   /\ notifications' = notifications]_vars

\* C11 witness: a cancel of an application that was approved before has
\* failed; the application is still approved with its two history entries
\* and only the approval's notification exists.
C11_Witness ==
    /\ lastResult.op = "cancel"
    /\ lastResult.outcome = "Application cannot be cancelled at this stage"
    /\ apps[lastResult.id].status = "approved"
    /\ Len(apps[lastResult.id].statusHistory) = 2
    /\ Len(notifications) = 1

\* The status enum of the workflow.
StatusEnum ==
    {"pending", "under_review", "approved", "rejected", "completed", "cancelled"}

\* C12: an updateApplicationStatus call whose newStatus is outside the
\* status enum throws 'Invalid status' before any storage call, and one whose
\* get finds no document throws 'Application not found'; either way the
\* caller gets the error, the call is over, and no application and no
\* notification is written.
C12_InvalidOrMissingRejected ==
    [][/\ \A p \in 1..MaxPending, id \in AppIds, c \in CommentInputs :
             \A ns \in StatusInputs \ StatusEnum :
                UpdateCall(p, id, ns, c)
                   => /\ lastResult' = [op |-> "update", id |-> id,
                                        outcome |-> "Invalid status",
                                        eligible |-> FALSE]
                      /\ calls' = calls
                      /\ apps' = apps
                      /\ notifications' = notifications
       /\ \A p \in DOMAIN calls :
             (UpdateRead(p, TRUE) /\ ~apps[calls[p].id].exists)
                => /\ lastResult'.op = calls[p].via
                   /\ lastResult'.id = calls[p].id
                   /\ lastResult'.outcome = "Application not found"
                   /\ calls' = Remove(calls, p)
                   /\ apps' = apps
                   /\ notifications' = notifications]_vars

\* C12 witness: two calls were made and have ended, the last one an update
\* rejected for its status; the store is as it was constructed.
C12_Witness ==
    /\ lastResult.op = "update"
    /\ lastResult.outcome = "Invalid status"
    /\ nCalls = 2 /\ calls = <<>>
    /\ apps = [id \in AppIds |-> IF id = 1 THEN NewApplication("u1") ELSE NoDoc]
    /\ notifications = <<>>

\* The update of call p is stored: completedAt is part of the update exactly
\* when newStatus is approved or completed, and is left as it was otherwise.
C13_CompletedAt(p) ==
    (/\ calls[p].op = "update" /\ calls[p].pc = "write"
     /\ calls' = [calls EXCEPT ![p].pc = "notify"])
        => LET done == calls[p].newStatus \in {"approved", "completed"}
               id == calls[p].id
           IN  /\ calls[p].updateData.setCompletedAt <=> done
               /\ apps'[id].completedAt = (done \/ apps[id].completedAt)

\* The notification C13 describes for call p: unread, addressed to the
\* stored userId of the application, referring to the application.
C13_Expected(p) ==
    [userId |-> apps[calls[p].id].userId, type |-> "status_update",
     applicationId |-> calls[p].id, newStatus |-> calls[p].newStatus,
     isRead |-> FALSE]

\* C13 as claimed: a successful updateApplicationStatus sets completedAt if
\* and only if newStatus is approved or completed, and on its return exactly
\* one unread notification for the application's owner, referring to the
\* application, has been created.
C13_AsClaimed ==
    [][\A p \in DOMAIN calls :
          /\ C13_CompletedAt(p)
          /\ (/\ calls[p].op = "update" /\ calls[p].pc = "notify"
              /\ calls' = Remove(calls, p))
                => /\ lastResult'.outcome = "ok"
                   /\ notifications' = Append(notifications, C13_Expected(p))]_vars

\* C13 amended: completedAt as claimed; the call makes one attempt to store
\* the notification, which adds exactly that one notification when the add
\* succeeds and none when it fails, and the call returns normally either way.
C13_Amended ==
    [][\A p \in DOMAIN calls :
          /\ C13_CompletedAt(p)
          /\ UpdateNotify(p, TRUE)
                => /\ lastResult'.outcome = "ok"
                   /\ notifications' = Append(notifications, C13_Expected(p))
          /\ UpdateNotify(p, FALSE)
                => /\ lastResult'.outcome = "ok"
                   /\ notifications' = notifications]_vars

\* C13 witness: u2 approved the application of u1; completedAt is set and
\* the one notification is unread and addressed to u1.
C13_Witness ==
    /\ lastResult.op = "update" /\ lastResult.id = 1
    /\ lastResult.outcome = "ok"
    /\ apps[1].userId = "u1"
    /\ apps[1].lastUpdatedBy = "u2"
    /\ apps[1].status = "approved"
    /\ apps[1].completedAt
    /\ notifications = <<[userId |-> "u1", type |-> "status_update",
                          applicationId |-> 1, newStatus |-> "approved",
                          isRead |-> FALSE]>>

\* C14: a notification is stored only by a call whose update has been
\* persisted: a call reaches createNotification in the step that stores its
\* update, a call whose update fails ends with the error and no notification,
\* and nothing else adds a notification.  When the add of the notification
\* fails the call still returns normally and no application changes, so the
\* persisted status and statusHistory stay as the update wrote them.
C14_NotifyAfterPersistBestEffort ==
    [][/\ notifications' # notifications
             => \E p \in DOMAIN calls :
                   /\ calls[p].op = "update" /\ calls[p].pc = "notify"
                   /\ calls' = Remove(calls, p)
       /\ \A p \in DOMAIN calls :
             /\ (/\ calls[p].op = "update" /\ calls[p].pc # "notify"
                 /\ p \in DOMAIN calls' /\ calls'[p].op = "update"
                 /\ calls'[p].pc = "notify" /\ Len(calls') = Len(calls))
                   => /\ calls[p].pc = "write"
                      /\ apps'[calls[p].id].status = calls[p].newStatus
                      /\ apps'[calls[p].id].statusHistory = calls[p].updateData.statusHistory
             /\ UpdateWrite(p, FALSE)
                   => /\ lastResult'.outcome = "storage error"
                      /\ calls' = Remove(calls, p)
                      /\ notifications' = notifications
             /\ UpdateNotify(p, FALSE)
                   => /\ lastResult'.op = calls[p].via
                      /\ lastResult'.outcome = "ok"
                      /\ calls' = Remove(calls, p)
                      /\ apps' = apps
                      /\ notifications' = notifications]_vars

\* C14 witness: the only call made was an approval whose notification could
\* not be stored; it returned normally and the application is approved with
\* the new history entry.
C14_Witness ==
    /\ nCalls = 1 /\ calls = <<>>
    /\ lastResult.op = "update" /\ lastResult.outcome = "ok"
    /\ notifications = <<>>
    /\ apps[1].status = "approved"
    /\ Len(apps[1].statusHistory) = 2
    /\ Last(apps[1].statusHistory).status = "approved"

\* C15: when a bulkUpdateStatus call ends, every id was counted once, as
\* success or as failed; whatever failed for some id, the ids counted as
\* success have the new status and one more statusHistory entry than
\* before, and no other application has changed.
C15_BulkIsolatesFailures ==
    [][\A p \in DOMAIN calls :
          (/\ calls[p].op = "bulk" /\ calls[p].pc = "commit"
           /\ calls' = Remove(calls, p))
             => LET c == calls[p]
                    updated == {c.batch[k].id : k \in DOMAIN c.batch}
                IN  /\ c.success + c.failed = Len(c.ids)
                    /\ c.success = Cardinality(updated)
                    /\ \A id \in updated :
                          /\ apps'[id].status = c.newStatus
                          /\ Len(apps'[id].statusHistory)
                                = Len(apps[id].statusHistory) + 1
                    /\ \A id \in AppIds \ updated : apps'[id] = apps[id]]_vars

(***************************************************************************)
(* Claims about the validated entry points, checked under SpecForms.       *)
(***************************************************************************)
\* A call that ends in the step that starts it, with this error, having
\* awaited no storage call and changed no collection.
C16_RejectedAtOnce(op, error) ==
    /\ lastResult' = [op |-> op, id |-> 0, outcome |-> error, eligible |-> FALSE]
    /\ calls' = calls
    /\ services' = services
    /\ apps' = apps
    /\ notifications' = notifications

\* C16: a createService or submitApplication call whose validator rejects
\* the input raises the validator's error to the caller before any storage
\* call is made: the call never waits on the store, and the services,
\* applications and notifications collections are unchanged.
C16_ValidateBeforeStorage ==
    [][/\ \A p \in 1..MaxPending, data \in ServiceInputs :
             (ServiceCall(p, data) /\ ValidateServiceData(data) # "ok")
                => C16_RejectedAtOnce("createService", ValidateServiceData(data))
       /\ \A p \in 1..MaxPending, data \in FormInputs :
             (SubmitCall(p, data) /\ ValidateApplicationData(data) # "ok")
                => C16_RejectedAtOnce("submit", ValidateApplicationData(data))]_vars

\* C16 witness: two calls were made and have ended, the last one a
\* submitApplication call rejected for its missing fields; the collections
\* are as they were constructed.
C16_Witness ==
    /\ nCalls = 2 /\ calls = <<>>
    /\ lastResult.op = "submit"
    /\ lastResult.outcome
          = "Missing required fields: applicantName, applicantEmail, applicantPhone"
    /\ Len(services) = 1
    /\ apps = [id \in AppIds |-> IF id = 1 THEN NewApplication("u1") ELSE NoDoc]
    /\ notifications = <<>>

(***************************************************************************)
(* Claims about the validators, checked under SpecValidate.                *)
(***************************************************************************)
\* The field is absent from the object, or empty.
C17_Absent(data, field) == field \notin DOMAIN data \/ Len(data[field]) = 0

\* The absent fields among required, in the order of required, separated
\* by ", ".
RECURSIVE C17_Listed(_, _)
C17_Listed(required, data) ==
    IF required = <<>> THEN ""
    ELSE LET rest == C17_Listed(Tail(required), data)
         IN  IF ~C17_Absent(data, required[1]) THEN rest
             ELSE IF rest = "" THEN required[1]
             ELSE required[1] \o ", " \o rest

C17_Required ==
    IF formKind = "service" THEN <<"name", "description", "category">>
    ELSE <<"serviceId", "applicantName", "applicantEmail", "applicantPhone">>

\* C17: a validator given an object in which some required field is absent
\* or empty throws 'Missing required fields: ' followed by exactly the
\* absent fields in declaration order, whatever the category, email and
\* phone are; validateServiceData throws 'Invalid service category' exactly
\* when its three fields are present and category is not one of
\* certificate, license, welfare, other.
C17_MissingFieldsListed ==
    formError # "none"
        => LET someAbsent == \E i \in DOMAIN C17_Required :
                                 C17_Absent(formData, C17_Required[i])
           IN  /\ someAbsent
                    => formError = "Missing required fields: "
                                      \o C17_Listed(C17_Required, formData)
               /\ formKind = "service"
                    => (formError = "Invalid service category"
                          <=> /\ ~someAbsent
                              /\ formData.category
                                    \notin {"certificate", "license", "welfare", "other"})

\* C17 witness: validateApplicationData was given {serviceId: 's1'} and
\* threw the error that lists the three other fields.
C17_Witness ==
    /\ formKind = "application"
    /\ formData = [serviceId |-> "s1"]
    /\ formError
          = "Missing required fields: applicantName, applicantEmail, applicantPhone"

\* The shape local@domain.tld: no whitespace, one '@' that is not the first
\* character, and after it a '.' with at least one character on each side.
C18_EmailShape(email) ==
    /\ \A j \in DOMAIN email : email[j] \notin {" ", "\t"}
    /\ \E i \in DOMAIN email :
          /\ email[i] = "@"
          /\ \A j \in DOMAIN email : email[j] = "@" => j = i
          /\ i > 1
          /\ \E k \in (i + 2)..(Len(email) - 1) : email[k] = "."

\* The number of digits in the phone number is between 10 and 15.
C18_PhoneDigits(phone) ==
    LET n == Cardinality({i \in DOMAIN phone :
                             phone[i] \in {"0", "1", "2", "3", "4", "5", "6", "7", "8", "9"}})
    IN  n >= 10 /\ n <= 15

\* C18: validateApplicationData given an object with its four required
\* fields present accepts it exactly when applicantEmail has the shape
\* local@domain.tld and applicantPhone holds 10 to 15 digits among its
\* characters; an email of another shape is reported as 'Invalid email
\* format' whatever the phone is, and a bad phone after a good email as
\* 'Invalid phone number format'.
C18_EmailThenPhone ==
    (/\ formKind = "application" /\ formError # "none"
     /\ \A i \in DOMAIN C17_Required : ~C17_Absent(formData, C17_Required[i]))
        => LET email == C18_EmailShape(formData.applicantEmail)
               phone == C18_PhoneDigits(formData.applicantPhone)
           IN  /\ formError = "ok" <=> (email /\ phone)
               /\ ~email => formError = "Invalid email format"
               /\ (email /\ ~phone) => formError = "Invalid phone number format"

\* C18 witness: a phone number written with separators, holding 15 digits,
\* was accepted together with a well-formed email.
C18_Witness ==
    /\ formKind = "application"
    /\ formError = "ok"
    /\ formData.applicantEmail = <<"a", "@", "b", ".", "c">>
    /\ Len(formData.applicantPhone) > 15
    /\ formData.applicantPhone[4] = "-"

(***************************************************************************)
(* Claims about sanitizeData, checked under SpecSanitize.                  *)
(***************************************************************************)
\* The keys explored whose lower-cased name contains password, token,
\* secret, key, auth or credential: apiKey, Password, authToken, monkey,
\* SECRET, user_credentials.
C19_Denylisted ==
    {<<"a", "p", "i", "K", "e", "y">>,
     <<"P", "a", "s", "s", "w", "o", "r", "d">>,
     <<"a", "u", "t", "h", "T", "o", "k", "e", "n">>,
     <<"m", "o", "n", "k", "e", "y">>,
     <<"S", "E", "C", "R", "E", "T">>,
     <<"u", "s", "e", "r", "_", "c", "r", "e", "d", "e", "n", "t", "i", "a", "l", "s">>}

\* The property names of a value, and the value of a property (an element
\* of a sequence is the property named by its index).
C19_Keys(v) ==
    IF v.kind = "obj" THEN DOMAIN v.obj
    ELSE IF v.kind = "arr" THEN {<<ToString(i - 1)>> : i \in DOMAIN v.arr}
    ELSE {}
C19_Get(v, key) ==
    IF v.kind = "obj" THEN v.obj[key]
    ELSE v.arr[CHOOSE i \in DOMAIN v.arr : <<ToString(i - 1)>> = key]

\* out is v with the value of every denylisted mapping key replaced by
\* '[REDACTED]', at any depth; every other property is there with its value.
RECURSIVE C19_RedactedCopy(_, _)
C19_RedactedCopy(v, out) ==
    IF v.kind \notin {"obj", "arr"} THEN out = v
    ELSE /\ out.kind \in {"obj", "arr"}
         /\ C19_Keys(out) = C19_Keys(v)
         /\ \A key \in C19_Keys(v) :
               IF v.kind = "obj" /\ key \in C19_Denylisted
               THEN C19_Get(out, key) = [kind |-> "str", str |-> "[REDACTED]"]
               ELSE C19_RedactedCopy(C19_Get(v, key), C19_Get(out, key))

\* C19: the value sanitizeData returns has '[REDACTED]' as the value of
\* every mapping key whose lower-cased name contains a denylisted word, at
\* any depth inside mappings and sequences; every other key is there with
\* its value; and the call leaves its argument as it was.
C19_RedactsDenylistedKeys ==
    /\ [](sanResult # NoValue => C19_RedactedCopy(sanData, sanResult))
    /\ [][sanData' = sanData]_vars

\* C19 witness: a sequence holding a mapping was sanitized: apiKey is
\* redacted and its sibling id has kept its value.
C19_Witness ==
    /\ sanData = [kind |-> "arr", arr |-> <<[kind |-> "obj", obj |->
                      (<<"a", "p", "i", "K", "e", "y">> :> [kind |-> "str", str |-> "x"])
                      @@ (<<"i", "d">> :> [kind |-> "str", str |-> "x"])]>>]
    /\ sanResult # NoValue
    /\ C19_Get(C19_Get(sanResult, <<"0">>), <<"a", "p", "i", "K", "e", "y">>)
          = [kind |-> "str", str |-> "[REDACTED]"]
    /\ C19_Get(C19_Get(sanResult, <<"0">>), <<"i", "d">>) = [kind |-> "str", str |-> "x"]

\* No mapping inside v, at any depth, has a denylisted key.
RECURSIVE C20_Clean(_)
C20_Clean(v) ==
    IF v.kind = "obj"
    THEN \A key \in DOMAIN v.obj : key \notin C19_Denylisted /\ C20_Clean(v.obj[key])
    ELSE IF v.kind = "arr"
    THEN \A i \in DOMAIN v.arr : C20_Clean(v.arr[i])
    ELSE TRUE

\* C20: sanitizeData applied to a value without denylisted keys returns a
\* value equal to its argument: the same keys and nesting, mappings as
\* mappings and sequences as sequences, also when the argument itself is a
\* sequence.
C20_CleanValueUnchanged ==
    (sanResult # NoValue /\ C20_Clean(sanData)) => sanResult = sanData

(***************************************************************************)
(* C21: services are only soft-deleted                                     *)
(***************************************************************************)
\* Every service of the collection exists and getServiceById returns it;
\* getServices and searchServices return only services whose isActive is
\* true.
C21_StoredAndListedActive ==
    /\ \A i \in DOMAIN services :
          /\ services[i].exists
          /\ GetServiceById(ServiceId(i)).found
          /\ GetServiceById(ServiceId(i)).service.id = ServiceId(i)
    /\ \A category \in CategoryInputs, searchTerm \in SearchTermInputs :
          /\ \A k \in DOMAIN GetServices(category) :
                GetServices(category)[k].isActive = TRUE
          /\ \A k \in DOMAIN SearchServices(searchTerm, category) :
                SearchServices(searchTerm, category)[k].isActive = TRUE

\* No step removes a service document, and a deleteService that resolves
\* leaves its document with isActive false.
C21_NeverRemoved ==
    /\ Len(services') >= Len(services)
    /\ \A i \in DOMAIN services : services[i].exists => services'[i].exists
    /\ \A p \in Pending :
          /\ calls[p].op = "deleteService"
          /\ calls' = Remove(calls, p)
          /\ lastResult'.op = "deleteService" /\ lastResult'.outcome = "ok"
          => services'[ServiceIndex(calls[p].serviceId)].isActive = FALSE

\* C21: deleteService sets isActive to false and never removes the document:
\* after any sequence of createService, updateService and deleteService every
\* service ever created still exists and is returned by getServiceById, while
\* getServices and searchServices return only active services.
C21_SoftDeleteOnly == []C21_StoredAndListedActive /\ [][C21_NeverRemoved]_vars

\* A created service was deleted: it is still returned by getServiceById and
\* is no longer listed, while another service still is.
C21_Witness ==
    /\ Len(services) = 2
    /\ lastResult.op = "deleteService" /\ lastResult.outcome = "ok"
    /\ services[2].isActive = FALSE
    /\ GetServiceById("s2").found
    /\ Len(GetServices("")) = 1
(***************************************************************************)
(* C22: topErrors and errorRate of getLogStatistics                        *)
(***************************************************************************)
\* The distinct ERROR messages in first-seen order with their counts, sorted
\* by descending count with ties kept in that order, cut to ten.
C22_TopErrorsFirstSeen(logs) ==
    Slice(SortByCount([i \in DOMAIN FirstSeen(logs) |->
                          [message |-> FirstSeen(logs)[i],
                           count |-> ErrorCount(logs, FirstSeen(logs)[i])]]),
          TopErrorsLimit)

\* C22: getLogStatistics returns topErrors as the at most 10 distinct ERROR
\* messages with their counts, by descending count with ties in first-seen
\* order, and errorRate as ERROR entries over all entries (0 when none).
C22_TopErrorsAndRate ==
    (statResult.set /\ statResult.ok) =>
        /\ statResult.topErrors = C22_TopErrorsFirstSeen(statLogs)
        /\ statResult.errorRate = ErrorRate(statLogs)
(***************************************************************************)
(* C23: the level filter                                                   *)
(***************************************************************************)
\* The position of a level in the order DEBUG < INFO < WARN < ERROR.
C23_Rank(level) ==
    CASE level = "DEBUG" -> 0 [] level = "INFO" -> 1
      [] level = "WARN" -> 2 [] level = "ERROR" -> 3

\* The record method logs below the minimum level that was set.
C23_Below(method) ==
    /\ levelFilter.set
    /\ levelFilter.minLevel \in {"DEBUG", "INFO", "WARN", "ERROR"}
    /\ method \in {"debug", "info", "warn", "error"}
    /\ C23_Rank(LevelUpperCase(method)) < C23_Rank(levelFilter.minLevel)

\* C23: after setLogLevel(L), or initLogger with options.logLevel = L, a log
\* call whose level is below L in the order DEBUG < INFO < WARN < ERROR is
\* neither mirrored to the console nor appended to the buffer.
C23_BelowLevelNotRecorded ==
    [][\A method \in LevelMethods, context \in ContextInputs, oc \in RecordOutcomes :
          (LogEntry(method, context, oc) /\ C23_Below(method)) =>
              /\ consoleSink' = consoleSink
              /\ logBuffer' = logBuffer
              /\ inflight' = inflight]_vars

(***************************************************************************)
(* C25: entries of a child logger carry its context                        *)
(***************************************************************************)
\* C25: every entry recorded through a logger returned by child(context)
\* has the keys of that context, merged over the parent's default context,
\* in its context field.
C25_ChildContextInEntries ==
    (defaultContext.set /\ entryContext.set) =>
        \A k \in DOMAIN defaultContext.ctx : k \in DOMAIN entryContext.ctx
(***************************************************************************)
(* C24: the operations documented as 'Admin only'                          *)
(***************************************************************************)
\* C24: createService, updateService and deleteService take effect only when
\* the current user's role is admin: a step that changes a stored document
\* is made for an admin.
C24_AdminOnlyTakesEffect ==
    [][(services' # services \/ users' # users)
          => users[currentUser].role = "admin"]_vars

(***************************************************************************)
(* C27: statusHistory under interleaved status changes                     *)
(***************************************************************************)
\* The sequence longer extends the sequence shorter.
C27_Extends(longer, shorter) ==
    /\ Len(longer) >= Len(shorter)
    /\ SubSeq(longer, 1, Len(shorter)) = shorter

\* C27: statusHistory is append-only also under interleaving: no step
\* removes or overwrites a history entry that was persisted, so the entries
\* of two overlapping status changes that both succeed are both in the final
\* history.
C27_HistoryAppendOnly ==
    [][\A id \in AppIds :
          apps[id].exists =>
              /\ apps'[id].exists
              /\ C27_Extends(apps'[id].statusHistory, apps[id].statusHistory)]_vars

(***************************************************************************)
(* C28: every stored status is in the enum                                 *)
(***************************************************************************)
\* C28: in every reachable state the status of every application and of
\* every statusHistory entry is one of pending, under_review, approved,
\* rejected, completed, cancelled.
C28_StatusInEnum ==
    \A id \in AppIds :
        apps[id].exists =>
            /\ apps[id].status \in StatusEnum
            /\ \A k \in DOMAIN apps[id].statusHistory :
                  apps[id].statusHistory[k].status \in StatusEnum
(***************************************************************************)
(* C29: AuthModule holds a user only while the provider does               *)
(***************************************************************************)
\* C29: under any interleaving of login, logout and the auth-state handler,
\* once the provider has no signed-in user and no call is pending,
\* currentUser and currentUserRole of AuthModule are null and hasRole
\* returns false.
C29_NoUserWithoutProvider ==
    (currentUser = "null" /\ calls = <<>>) =>
        /\ moduleUser = "null"
        /\ currentUserRole = "null"
        /\ \A role \in RoleInputs : ~HasRole(role)
(***************************************************************************)
(* C26: every recorded entry is eventually committed                       *)
(***************************************************************************)
\* C26: with persistence enabled, the timer firing fairly and commits that
\* succeed in the end, every recorded entry is eventually in storage: an
\* entry whose flush failed is retried until it is persisted.
C26_EventuallyPersisted ==
    \A e \in 1..MaxEntries :
        (enableFirestore /\ db /\ e < nextLogId) ~> (e \in persisted)

(***************************************************************************)
(* C30: the buffer is bounded                                              *)
(***************************************************************************)
\* C30: once a record call has returned, the buffer holds fewer than
\* maxBufferSize entries, whether flushes succeeded or failed before.
C30_BufferBelowCapacity == lastOp = "record" => Len(logBuffer) < maxBufferSize
====
